---- MODULE Spec2Model ----
(***************************************************************************)
(* Model of the csv-filter core (renderer/src/utils/csvFilterUtils.ts):    *)
(* filterEmptyRows, parseCSV, filterCsvData and compareCSVData.            *)
(*                                                                         *)
(* JavaScript strings are sequences of one-character strings, so that      *)
(* String(), trim(), toLowerCase(), startsWith and slice are computed and   *)
(* not assumed.  A cell value (string | number | null | undefined) is a    *)
(* tagged record.  A CSVRow is a function from the column names it holds   *)
(* to cell values: "column in row" is membership in its DOMAIN.            *)
(***************************************************************************)
EXTENDS Integers, Sequences, FiniteSets, TLC

VARIABLES pc, leftData, rightData, column, mode, caseInsensitive, filterResult,
          keyColumn, valueColumn, compareResult,
          results, filePath, parseResult,
          csvContent,
          leftCSV, rightCSV, leftPage, rightPage, leftFilePath, rightFilePath,
          error, errorOpen, selecting,
          operationMode, selectedColumnIndex, filterMode, filteredData, filteredPage,
          keyColumnIndex, valueColumnIndex, comparisonResult, comparisonPage,
          onError, committed

\* the state of the App component (App.tsx); selecting holds the calls of
\* handleFileUpload that wait for window.api.selectFile()
appVars == <<leftCSV, rightCSV, leftPage, rightPage, leftFilePath, rightFilePath,
             error, errorOpen, selecting>>

\* the state of the CsvFilter component (CsvFilter.tsx), caseInsensitive apart;
\* onError is the identity of the onError prop, committed the dependencies of
\* the last render whose effects have run
componentVars == <<operationMode, selectedColumnIndex, filterMode, filteredData,
                   filteredPage, keyColumnIndex, valueColumnIndex, comparisonResult,
                   comparisonPage, onError, committed>>

\* what a call of one of the functions of csvFilterUtils leaves alone
otherVars == <<csvContent, appVars, componentVars>>

vars == <<pc, leftData, rightData, column, mode, caseInsensitive, filterResult,
          keyColumn, valueColumn, compareResult, results, filePath, parseResult,
          otherVars>>

\* useState<CSVData | null>(null); a CSVData object has an identity, id
NullCSV == [loaded |-> FALSE, id |-> 0, headers |-> <<>>, data |-> <<>>]

\* the dependencies of a render; before the mount no render is committed
NotMounted ==
    [mounted |-> FALSE, leftCSV |-> NullCSV, rightCSV |-> NullCSV,
     selectedColumnIndex |-> 0, filterMode |-> "exclude", caseInsensitive |-> FALSE,
     onError |-> 0, operationMode |-> "filter",
     keyColumnIndex |-> 0, valueColumnIndex |-> 0]

\* the useState initial values of App: no file loaded, first pages, no error
\* (null is the empty text, for a path and for a message)
AppMounted ==
    /\ leftCSV = NullCSV /\ rightCSV = NullCSV
    /\ leftPage = 1 /\ rightPage = 1
    /\ leftFilePath = "" /\ rightFilePath = ""
    /\ error = <<>> /\ errorOpen = FALSE
    /\ selecting = {}

\* the useState initial values of CsvFilter; a column index is the code's
\* index plus one, and 0 stands for ''
CsvFilterCreated ==
    /\ operationMode = "filter" /\ selectedColumnIndex = 0 /\ filterMode = "exclude"
    /\ filteredData = <<>> /\ filteredPage = 1
    /\ keyColumnIndex = 0 /\ valueColumnIndex = 0
    /\ comparisonResult = [kind |-> "null"] /\ comparisonPage = 1
    /\ onError = 0 /\ committed = NotMounted

ComponentsIdle == AppMounted /\ CsvFilterCreated

\* no text is being parsed and the components are as created
OthersIdle == csvContent = <<>> /\ ComponentsIdle

(***************************************************************************)
(* Bounds of the model.                                                    *)
(***************************************************************************)
MaxLeft == 2
MaxRight == 2
MaxCols == 3
MaxText == 4

(***************************************************************************)
(* Cell values.                                                            *)
(***************************************************************************)
Str(s) == [t |-> "str", s |-> s, n |-> 0]
Num(n) == [t |-> "num", s |-> <<>>, n |-> n]
Null == [t |-> "null", s |-> <<>>, n |-> 0]
Undef == [t |-> "undef", s |-> <<>>, n |-> 0]

IsNullish(v) == v.t \in {"null", "undef"}

\* row[column]: undefined when the row holds no such key
Get(row, col) == IF col \in DOMAIN row THEN row[col] ELSE Undef

(***************************************************************************)
(* String primitives of the JavaScript runtime.                            *)
(***************************************************************************)
Whitespace == {" ", "\t", "\n", "\r", "BOM"}

DigitChar(d) == CASE d = 0 -> "0" [] d = 1 -> "1" [] d = 2 -> "2" [] d = 3 -> "3"
                  [] d = 4 -> "4" [] d = 5 -> "5" [] d = 6 -> "6" [] d = 7 -> "7"
                  [] d = 8 -> "8" [] d = 9 -> "9"

RECURSIVE Digits(_)
Digits(n) == IF n < 10 THEN <<DigitChar(n)>>
             ELSE Append(Digits(n \div 10), DigitChar(n % 10))

\* String(value)
StringOf(v) == CASE v.t = "str" -> v.s
                 [] v.t = "num" -> Digits(v.n)
                 [] v.t = "null" -> <<"n", "u", "l", "l">>
                 [] v.t = "undef" -> <<"u", "n", "d", "e", "f", "i", "n", "e", "d">>

LowerChar(c) == CASE c = "A" -> "a" [] c = "X" -> "x" [] c = "N" -> "n"
                  [] c = "U" -> "u" [] c = "L" -> "l" [] OTHER -> c

\* s.toLowerCase()
ToLowerCase(s) == [i \in 1..Len(s) |-> LowerChar(s[i])]

RECURSIVE TrimStart(_)
TrimStart(s) == IF s # <<>> /\ Head(s) \in Whitespace THEN TrimStart(Tail(s)) ELSE s

RECURSIVE TrimEnd(_)
TrimEnd(s) == IF s # <<>> /\ s[Len(s)] \in Whitespace
              THEN TrimEnd(SubSeq(s, 1, Len(s) - 1)) ELSE s

\* s.trim()
Trim(s) == TrimEnd(TrimStart(s))

\* array.filter(keep), order preserving
RECURSIVE FilterSeq(_, _)
FilterSeq(seq, keep) == IF seq = <<>> THEN <<>>
                        ELSE IF keep[Head(seq)]
                             THEN <<Head(seq)>> \o FilterSeq(Tail(seq), keep)
                             ELSE FilterSeq(Tail(seq), keep)

Elems(seq) == {seq[i] : i \in 1..Len(seq)}

\* new Set([...]): the distinct elements in order of first occurrence
RECURSIVE SetOf(_)
SetOf(seq) ==
    IF seq = <<>> THEN <<>>
    ELSE LET n == Len(seq)
             front == SetOf(SubSeq(seq, 1, n - 1))
         IN IF seq[n] \in Elems(front) THEN front ELSE Append(front, seq[n])

(***************************************************************************)
(* filterEmptyRows                                                         *)
(***************************************************************************)
\* faulty variant: a falsy value, the number 0 among them, counts as empty
NonBlankValue_Falsy(value) ==
    ~IsNullish(value) /\ value # Num(0) /\ Trim(StringOf(value)) # <<>>

\* value !== null && value !== undefined && String(value).trim() !== ''
NonBlankValue(value) == ~IsNullish(value) /\ Trim(StringOf(value)) # <<>>

filterEmptyRows(data) ==
    FilterSeq(data, [row \in Elems(data) |-> \E k \in DOMAIN row : NonBlankValue(row[k])])

(***************************************************************************)
(* parseCSV.  Papa.parse is the tokenizer, a library outside the           *)
(* repository: what it hands to the callbacks is the input here.           *)
(* results.status is "complete" (the complete callback, with results.data  *)
(* and results.errors), "error" (the error callback) or "load_failed"      *)
(* (the dynamic import rejected).  A field of results.data is a string.    *)
(***************************************************************************)
Quote == "\""

\* header.startsWith('"') && header.endsWith('"') ? header.slice(1, -1) : header
stripQuotes(header) ==
    IF header # <<>> /\ header[1] = Quote /\ header[Len(header)] = Quote
    THEN SubSeq(header, 2, Len(header) - 1)
    ELSE header

\* headers.indexOf(header), 1-based
IndexOf(seq, x) == CHOOSE i \in 1..Len(seq) : seq[i] = x /\ \A j \in 1..(i - 1) : seq[j] # x

\* faulty variant: empty headers are checked for repetition too
duplicateHeaders_CountEmpty(headers) ==
    LET idx == {i \in 1..Len(headers) : IndexOf(headers, headers[i]) # i}
        pick[i \in 0..Len(headers)] ==
            IF i = 0 THEN <<>>
            ELSE IF i \in idx THEN Append(pick[i - 1], headers[i]) ELSE pick[i - 1]
    IN pick[Len(headers)]

\* headers.filter((header, index) => header && headers.indexOf(header) !== index)
duplicateHeaders(headers) ==
    LET idx == {i \in 1..Len(headers) :
                    headers[i] # <<>> /\ IndexOf(headers, headers[i]) # i}
        pick[i \in 0..Len(headers)] ==
            IF i = 0 THEN <<>>
            ELSE IF i \in idx THEN Append(pick[i - 1], headers[i]) ELSE pick[i - 1]
    IN pick[Len(headers)]

\* names.join(', ')
RECURSIVE Join(_)
Join(names) ==
    IF names = <<>> THEN <<>>
    ELSE IF Len(names) = 1 THEN names[1]
    ELSE names[1] \o <<",", " ">> \o Join(Tail(names))

\* `col_${n}`
ColName(n) == <<"c", "o", "l", "_">> \o Digits(n)

\* row[index] || '' as a cell value (index is 1-based here)
CellOr(row, index) == Str(IF index <= Len(row) THEN row[index] ELSE <<>>)

\* number of empty headers before position index
EmptyBefore(headers, index) == Cardinality({j \in 1..(index - 1) : headers[j] = <<>>})

\* faulty variant: every empty header is keyed by its position
headerKey_AllSynthetic(headers, index) ==
    IF headers[index] = <<>> THEN ColName(index) ELSE headers[index]

\* the key the forEach body assigns for the header at position index (1-based;
\* the code's index is index - 1, emptyHeaderIndex is EmptyBefore)
headerKey(headers, index) ==
    LET header == headers[index]
        emptyHeadersCount == Cardinality({j \in 1..Len(headers) : headers[j] = <<>>})
        emptyHeaderIndex == EmptyBefore(headers, index)
    IN IF header = <<>>
       THEN IF emptyHeadersCount = 1
            THEN IF index - 1 = Len(headers) - 1 THEN ColName((index - 1) + 1) ELSE <<>>
            ELSE IF emptyHeaderIndex = 0 THEN <<>> ELSE ColName(emptyHeaderIndex + 2)
       ELSE header

\* headers.forEach(...) on a fresh obj: a later assignment to a key overwrites
rowToObject(headers, row) ==
    LET obj[i \in 0..Len(headers)] ==
            IF i = 0 THEN <<>>
            ELSE (headerKey(headers, i) :> CellOr(row, i)) @@ obj[i - 1]
    IN obj[Len(headers)]

\* faulty variant: a field counts as content without being trimmed
NonBlankRow_NoTrim(row) == \E i \in 1..Len(row) : row[i] # <<>>

\* row.some((value) => ... String(value).trim() !== '')
NonBlankRow(row) == \E i \in 1..Len(row) : Trim(row[i]) # <<>>

\* new Error(message) as ParseCSVError, with error.filePath and error.type set.
\* A message is the sequence of the template's pieces: the literal parts and
\* filePath are one element each, a joined list of names is spelled out.
ParseError(message, path, type) ==
    [kind |-> "error", message |-> message, type |-> type, filePath |-> path,
     headers |-> <<>>, data |-> <<>>]
ParseOk(headers, data) ==
    [kind |-> "ok", message |-> <<>>, type |-> "", filePath |-> "",
     headers |-> headers, data |-> data]

\* faulty variant: the repeated names are listed as filtered, without new Set
uniqueDuplicates_NoSet(duplicates) == duplicates

\* [...new Set(duplicateHeaders)]
uniqueDuplicates(duplicates) == SetOf(duplicates)

\* `CSV file contains duplicate column names: ${uniqueDuplicates.join(', ')}. Please fix ...`
DuplicateMessage(names) ==
    <<"CSV file contains duplicate column names: ">> \o Join(names)
        \o <<". Please fix the file and try again.">>

\* faulty variant: no return after the reject for duplicate headers
settle_NoReturn(res, path) ==
    IF res.status = "load_failed"
    THEN <<ParseError(<<"Failed to load Papa Parse library: ">>, path, "parsing_error")>>
    ELSE IF res.status = "error"
    THEN <<ParseError(<<"Failed to parse CSV file ", path, ": ">>, path, "parsing_error")>>
    ELSE IF Len(res.errors) > 0
    THEN <<ParseError(<<"CSV parsing errors found in ", path, ": ">>
                          \o Join([i \in 1..Len(res.errors) |-> <<res.errors[i]>>]),
                      path, "parsing_error")>>
    ELSE IF Len(res.data) = 0
    THEN <<ParseError(<<"No data found in CSV file: ", path>>, path, "invalid_data")>>
    ELSE LET nonEmpty == {i \in 1..Len(res.data) : NonBlankRow(res.data[i])}
         IN IF nonEmpty = {} THEN <<ParseOk(<<>>, <<>>)>>
            ELSE LET firstNonEmptyRowIndex == CHOOSE i \in nonEmpty : \A j \in nonEmpty : i <= j
                     rawHeaders == res.data[firstNonEmptyRowIndex]
                     headers == [i \in 1..Len(rawHeaders) |-> stripQuotes(rawHeaders[i])]
                     dups == duplicateHeaders(headers)
                     body == SubSeq(res.data, firstNonEmptyRowIndex + 1, Len(res.data))
                     dataRows == [i \in 1..Len(body) |-> rowToObject(headers, body[i])]
                 IN (IF Len(dups) > 0
                     THEN <<ParseError(DuplicateMessage(uniqueDuplicates(dups)), path,
                                       "duplicate_headers")>>
                     ELSE <<>>)
                    \o <<ParseOk(headers, filterEmptyRows(dataRows))>>

\* The resolve and reject calls the callbacks of one parseCSV call make, in
\* order, each with the value it passes.
settle(res, path) ==
    IF res.status = "load_failed"
    THEN <<ParseError(<<"Failed to load Papa Parse library: ">>, path, "parsing_error")>>
    ELSE IF res.status = "error"
    THEN <<ParseError(<<"Failed to parse CSV file ", path, ": ">>, path, "parsing_error")>>
    ELSE IF Len(res.errors) > 0
    THEN <<ParseError(<<"CSV parsing errors found in ", path, ": ">>
                          \o Join([i \in 1..Len(res.errors) |-> <<res.errors[i]>>]),
                      path, "parsing_error")>>
    ELSE IF Len(res.data) = 0
    THEN <<ParseError(<<"No data found in CSV file: ", path>>, path, "invalid_data")>>
    ELSE LET nonEmpty == {i \in 1..Len(res.data) : NonBlankRow(res.data[i])}
         IN IF nonEmpty = {} THEN <<ParseOk(<<>>, <<>>)>>
            ELSE LET firstNonEmptyRowIndex == CHOOSE i \in nonEmpty : \A j \in nonEmpty : i <= j
                     rawHeaders == res.data[firstNonEmptyRowIndex]
                     headers == [i \in 1..Len(rawHeaders) |-> stripQuotes(rawHeaders[i])]
                     dups == duplicateHeaders(headers)
                 IN IF Len(dups) > 0
                    THEN <<ParseError(DuplicateMessage(uniqueDuplicates(dups)), path,
                                      "duplicate_headers")>>
                    ELSE LET body == SubSeq(res.data, firstNonEmptyRowIndex + 1, Len(res.data))
                             dataRows == [i \in 1..Len(body) |-> rowToObject(headers, body[i])]
                         IN <<ParseOk(headers, filterEmptyRows(dataRows))>>

\* new Promise((resolve, reject) => ...): the first call settles the promise
parseCSV(res, path) == Head(settle(res, path))

(***************************************************************************)
(* filterCsvData                                                           *)
(***************************************************************************)
\* the normalized value is a string, or undefined for null/undefined
NormUndefined == [u |-> TRUE, s |-> <<>>]
NormString(s) == [u |-> FALSE, s |-> s]

\* faulty variant: the caseInsensitive option is ignored
normalizeValue_IgnoreCaseOption(value, ci) ==
    IF IsNullish(value) THEN NormUndefined ELSE NormString(StringOf(value))

\* faulty variant: no guard for null/undefined, String(value) is taken of them too
normalizeValue_NoNullGuard(value, ci) ==
    LET strValue == StringOf(value)
    IN NormString(IF ci THEN ToLowerCase(strValue) ELSE strValue)

normalizeValue(value, ci) ==
    IF IsNullish(value) THEN NormUndefined
    ELSE LET strValue == StringOf(value)
         IN NormString(IF ci THEN ToLowerCase(strValue) ELSE strValue)

\* faulty variant: null/undefined values of right are left out of the set
rightValues_SkipNullish(right, col, ci) ==
    {normalizeValue(Get(right[i], col), ci) :
        i \in {j \in 1..Len(right) : ~IsNullish(Get(right[j], col))}}

\* new Set(rightData.map((row) => normalizeValue(row[column])))
rightValues(right, col, ci) == {normalizeValue(Get(right[i], col), ci) : i \in 1..Len(right)}

FilterError(msg) == [kind |-> "error", message |-> msg, rows |-> <<>>, sameArray |-> FALSE]
\* sameArray: the returned array is the leftData array itself
FilterOk(rows, same) == [kind |-> "ok", message |-> "", rows |-> rows, sameArray |-> same]

\* faulty variant: the include branch compares the left value case-sensitively
filterCsvData_IncludeCaseSensitive(left, right, col, md, ci) ==
    IF Trim(col) = <<>> THEN FilterError("Cannot filter by empty column name")
    ELSE IF Len(left) = 0 THEN FilterOk(left, TRUE)
    ELSE IF Len(right) = 0 THEN FilterOk(left, TRUE)
    ELSE IF ~(\E i \in 1..Len(right) : col \in DOMAIN right[i]) THEN FilterOk(left, TRUE)
    ELSE LET rv == rightValues(right, col, ci)
         IN IF md = "include"
            THEN FilterOk(FilterSeq(left, [row \in Elems(left) |->
                     normalizeValue(Get(row, col), FALSE) \in rv]), FALSE)
            ELSE FilterOk(FilterSeq(left, [row \in Elems(left) |->
                     normalizeValue(Get(row, col), ci) \notin rv]), FALSE)

\* faulty variant: the two branches are swapped
filterCsvData_SwappedModes(left, right, col, md, ci) ==
    IF Trim(col) = <<>> THEN FilterError("Cannot filter by empty column name")
    ELSE IF Len(left) = 0 THEN FilterOk(left, TRUE)
    ELSE IF Len(right) = 0 THEN FilterOk(left, TRUE)
    ELSE IF ~(\E i \in 1..Len(right) : col \in DOMAIN right[i]) THEN FilterOk(left, TRUE)
    ELSE LET rv == rightValues(right, col, ci)
             has == [row \in Elems(left) |-> normalizeValue(Get(row, col), ci) \in rv]
         IN IF md # "include"
            THEN FilterOk(FilterSeq(left, has), FALSE)
            ELSE FilterOk(FilterSeq(left, [row \in Elems(left) |-> ~has[row]]), FALSE)

\* faulty variant: no early return when no right row holds the column
filterCsvData_NoColumnCheck(left, right, col, md, ci) ==
    IF Trim(col) = <<>> THEN FilterError("Cannot filter by empty column name")
    ELSE IF Len(left) = 0 THEN FilterOk(left, TRUE)
    ELSE IF Len(right) = 0 THEN FilterOk(left, TRUE)
    ELSE LET rv == rightValues(right, col, ci)
             has == [row \in Elems(left) |-> normalizeValue(Get(row, col), ci) \in rv]
         IN IF md = "include"
            THEN FilterOk(FilterSeq(left, has), FALSE)
            ELSE FilterOk(FilterSeq(left, [row \in Elems(left) |-> ~has[row]]), FALSE)

\* faulty variant: the empty lists return before the column name is validated
filterCsvData_DataCheckFirst(left, right, col, md, ci) ==
    IF Len(left) = 0 THEN FilterOk(left, TRUE)
    ELSE IF Len(right) = 0 THEN FilterOk(left, TRUE)
    ELSE IF Trim(col) = <<>> THEN FilterError("Cannot filter by empty column name")
    ELSE IF ~(\E i \in 1..Len(right) : col \in DOMAIN right[i]) THEN FilterOk(left, TRUE)
    ELSE LET rv == rightValues(right, col, ci)
             has == [row \in Elems(left) |-> normalizeValue(Get(row, col), ci) \in rv]
         IN IF md = "include"
            THEN FilterOk(FilterSeq(left, has), FALSE)
            ELSE FilterOk(FilterSeq(left, [row \in Elems(left) |-> ~has[row]]), FALSE)

filterCsvData(left, right, col, md, ci) ==
    IF Trim(col) = <<>> THEN FilterError("Cannot filter by empty column name")
    ELSE IF Len(left) = 0 THEN FilterOk(left, TRUE)
    ELSE IF Len(right) = 0 THEN FilterOk(left, TRUE)
    ELSE IF ~(\E i \in 1..Len(right) : col \in DOMAIN right[i]) THEN FilterOk(left, TRUE)
    ELSE LET rv == rightValues(right, col, ci)
             has == [row \in Elems(left) |-> normalizeValue(Get(row, col), ci) \in rv]
         IN IF md = "include"
            THEN FilterOk(FilterSeq(left, has), FALSE)
            ELSE FilterOk(FilterSeq(left, [row \in Elems(left) |-> ~has[row]]), FALSE)

(***************************************************************************)
(* compareCSVData                                                          *)
(***************************************************************************)
\* '\0__NULL__\0'
NULL_SENTINEL == <<"NUL", "_", "_", "N", "U", "L", "L", "_", "_", "NUL">>

normalizeKey(value, ci) ==
    IF IsNullish(value) THEN NULL_SENTINEL
    ELSE LET strValue == StringOf(value)
         IN IF ci THEN ToLowerCase(strValue) ELSE strValue

\* value === undefined ? null : value
UndefinedToNull(v) == IF v.t = "undef" THEN Null ELSE v

\* a ?? b
Coalesce(a, b) == IF IsNullish(a) THEN b ELSE a

\* A Map is the sequence of its [key, entry] pairs in insertion order.
MapHas(m, k) == \E i \in 1..Len(m) : m[i].key = k
MapIndex(m, k) == CHOOSE i \in 1..Len(m) : m[i].key = k
\* Map.get: the entry, or undefined
MapGet(m, k) == IF MapHas(m, k) THEN m[MapIndex(m, k)].entry ELSE Undef
\* faulty variant: an existing key keeps its first entry
MapSet_KeepFirst(m, k, e) ==
    IF MapHas(m, k) THEN m ELSE Append(m, [key |-> k, entry |-> e])

\* faulty variant: setting an existing key moves it to the end
MapSet_MoveToEnd(m, k, e) ==
    Append(FilterSeq(m, [x \in Elems(m) |-> x.key # k]), [key |-> k, entry |-> e])

\* Map.set: an existing key keeps its position and takes the new entry
MapSet(m, k, e) ==
    IF MapHas(m, k) THEN [m EXCEPT ![MapIndex(m, k)].entry = e]
    ELSE Append(m, [key |-> k, entry |-> e])
MapKeys(m) == [i \in 1..Len(m) |-> m[i].key]

\* faulty variant: the value is stored as read, undefined included
MapEntry_KeepUndefined(row, keyCol, valueCol) ==
    [keyValue |-> UndefinedToNull(Get(row, keyCol)),
     value |-> Get(row, valueCol)]

\* { keyValue: keyValue === undefined ? null : keyValue, value: value === undefined ? null : value }
MapEntry(row, keyCol, valueCol) ==
    [keyValue |-> UndefinedToNull(Get(row, keyCol)),
     value |-> UndefinedToNull(Get(row, valueCol))]

\* for (const row of data) map.set(normalizeKey(row[keyColumn]), {...})
RECURSIVE BuildMap(_, _, _, _)
BuildMap(data, keyCol, valueCol, ci) ==
    IF data = <<>> THEN <<>>
    ELSE LET n == Len(data)
             row == data[n]
         IN MapSet(BuildMap(SubSeq(data, 1, n - 1), keyCol, valueCol, ci),
                   normalizeKey(Get(row, keyCol), ci),
                   MapEntry(row, keyCol, valueCol))

\* entry?.field
EntryValue(e) == IF e = Undef THEN Undef ELSE e.value
EntryKeyValue(e) == IF e = Undef THEN Undef ELSE e.keyValue

\* faulty variant: the two values are compared without trimming
compareStatus_NoTrim(leftEntry, rightEntry) ==
    IF leftEntry # Undef /\ rightEntry = Undef THEN "only left"
    ELSE IF rightEntry # Undef /\ leftEntry = Undef THEN "only right"
    ELSE LET leftValNorm == StringOf(Coalesce(EntryValue(leftEntry), Str(<<>>)))
             rightValNorm == StringOf(Coalesce(EntryValue(rightEntry), Str(<<>>)))
         IN IF leftValNorm = rightValNorm THEN "matched" ELSE "diff"

\* faulty variant: the two values are compared without regard to letter case
compareStatus_FoldValues(leftEntry, rightEntry) ==
    IF leftEntry # Undef /\ rightEntry = Undef THEN "only left"
    ELSE IF rightEntry # Undef /\ leftEntry = Undef THEN "only right"
    ELSE LET leftValNorm == Trim(StringOf(Coalesce(EntryValue(leftEntry), Str(<<>>))))
             rightValNorm == Trim(StringOf(Coalesce(EntryValue(rightEntry), Str(<<>>))))
         IN IF ToLowerCase(leftValNorm) = ToLowerCase(rightValNorm)
            THEN "matched" ELSE "diff"

compareStatus(leftEntry, rightEntry) ==
    IF leftEntry # Undef /\ rightEntry = Undef THEN "only left"
    ELSE IF rightEntry # Undef /\ leftEntry = Undef THEN "only right"
    ELSE LET leftValNorm == Trim(StringOf(Coalesce(EntryValue(leftEntry), Str(<<>>))))
             rightValNorm == Trim(StringOf(Coalesce(EntryValue(rightEntry), Str(<<>>))))
         IN IF leftValNorm = rightValNorm THEN "matched" ELSE "diff"

ComparisonRow(leftEntry, rightEntry) ==
    [keyValue |-> Coalesce(Coalesce(EntryKeyValue(leftEntry), EntryKeyValue(rightEntry)), Null),
     leftValue |-> EntryValue(leftEntry),
     rightValue |-> EntryValue(rightEntry),
     status |-> compareStatus(leftEntry, rightEntry)]

Bump(acc, status, name) == IF status = name THEN acc + 1 ELSE acc

\* faulty variant: an 'only right' key increments onlyLeftCount
RECURSIVE CompareLoop_WrongCounter(_, _, _)
CompareLoop_WrongCounter(keys, leftMap, rightMap) ==
    IF keys = <<>>
    THEN [rows |-> <<>>, matchedCount |-> 0, diffCount |-> 0,
          onlyLeftCount |-> 0, onlyRightCount |-> 0]
    ELSE LET n == Len(keys)
             acc == CompareLoop_WrongCounter(SubSeq(keys, 1, n - 1), leftMap, rightMap)
             row == ComparisonRow(MapGet(leftMap, keys[n]), MapGet(rightMap, keys[n]))
         IN [rows |-> Append(acc.rows, row),
             matchedCount |-> Bump(acc.matchedCount, row.status, "matched"),
             diffCount |-> Bump(acc.diffCount, row.status, "diff"),
             onlyLeftCount |-> Bump(Bump(acc.onlyLeftCount, row.status, "only left"),
                                    row.status, "only right"),
             onlyRightCount |-> acc.onlyRightCount]

\* the loop over allKeys: the rows pushed and the four counters
RECURSIVE CompareLoop(_, _, _)
CompareLoop(keys, leftMap, rightMap) ==
    IF keys = <<>>
    THEN [rows |-> <<>>, matchedCount |-> 0, diffCount |-> 0,
          onlyLeftCount |-> 0, onlyRightCount |-> 0]
    ELSE LET n == Len(keys)
             acc == CompareLoop(SubSeq(keys, 1, n - 1), leftMap, rightMap)
             row == ComparisonRow(MapGet(leftMap, keys[n]), MapGet(rightMap, keys[n]))
         IN [rows |-> Append(acc.rows, row),
             matchedCount |-> Bump(acc.matchedCount, row.status, "matched"),
             diffCount |-> Bump(acc.diffCount, row.status, "diff"),
             onlyLeftCount |-> Bump(acc.onlyLeftCount, row.status, "only left"),
             onlyRightCount |-> Bump(acc.onlyRightCount, row.status, "only right")]

CompareError(msg) == [kind |-> "error", message |-> msg]

compareCSVData(left, right, keyCol, valueCol, ci) ==
    IF Trim(keyCol) = <<>> THEN CompareError("Key column name cannot be empty")
    ELSE IF Trim(valueCol) = <<>> THEN CompareError("Value column name cannot be empty")
    ELSE LET leftMap == BuildMap(left, keyCol, valueCol, ci)
             rightMap == BuildMap(right, keyCol, valueCol, ci)
             allKeys == SetOf(MapKeys(leftMap) \o MapKeys(rightMap))
             loop == CompareLoop(allKeys, leftMap, rightMap)
         IN [kind |-> "ok",
             rows |-> loop.rows,
             keyColumnName |-> keyCol,
             valueColumnName |-> valueCol,
             summary |-> [total |-> Len(loop.rows),
                          matched |-> loop.matchedCount,
                          diff |-> loop.diffCount,
                          onlyLeft |-> loop.onlyLeftCount,
                          onlyRight |-> loop.onlyRightCount]]

(***************************************************************************)
(* Inputs of the filter specification.                                     *)
(***************************************************************************)
ColK == <<"k">>
ColZ == <<"z">>
ColBlank == <<" ">>

\* rows holding the column k, and the row that lacks it
FilterLeftRows ==
    {(ColK :> v) : v \in {Str(<<"a">>), Str(<<"A">>), Num(1), Null, Undef}}
        \cup {(ColZ :> Str(<<"a">>))}
FilterRightRows ==
    {(ColK :> v) : v \in {Str(<<"a">>), Str(<<"A">>), Str(<<"1">>), Null}}
        \cup {(ColZ :> Str(<<"a">>))}
FilterColumns == {ColK, ColZ, ColBlank}

ColV == <<"v">>

\* left rows hold both columns; right rows hold both, or neither
CompareLeftRows ==
    {(ColK :> k) @@ (ColV :> v) :
        k \in {Str(<<"a">>), Str(<<"A">>), Null}, v \in {Str(<<"x">>), Num(1)}}
      \cup {(ColK :> Str(<<"a">>)) @@ (ColV :> Null)}
CompareRightRows ==
    {(ColK :> k) @@ (ColV :> v) :
        k \in {Str(<<"a">>), Str(<<"A">>)}, v \in {Str(<<"x", " ">>), Str(<<"1">>)}}
      \cup {(ColK :> Null) @@ (ColV :> Str(<<"x", " ">>)),
            (ColK :> Str(<<"a">>)) @@ (ColV :> Str(<<>>)),
            (ColZ :> Str(<<"a">>))}
CompareColumns == {<<ColK, ColV>>, <<ColBlank, ColV>>, <<ColK, ColBlank>>}

SeqsUpTo(S, n) == UNION {[1..m -> S] : m \in 0..n}

NoFilterResult == [kind |-> "none", message |-> "", rows |-> <<>>, sameArray |-> FALSE]
NoCompareResult == [kind |-> "none"]
NoParseResult == [kind |-> "none", message |-> <<>>, type |-> "", filePath |-> "",
                  headers |-> <<>>, data |-> <<>>]
NoResults == [status |-> "none", data |-> <<>>, errors |-> <<>>]

\* fields of a header row
HeaderCells == {<<>>, <<" ">>, <<"a">>, <<"A">>, <<"a", " ">>, <<Quote, "a", Quote>>,
                ColName(3)}
HeaderRows == UNION {[1..m -> HeaderCells] : m \in 1..MaxCols}
\* header rows one field wider, over two names: two names can both repeat
WideHeaderRows == [1..(MaxCols + 1) -> {<<"a">>, <<"A">>}]
\* a row under the header: the field at position j is empty or the digit j
BodyRows == UNION {{r \in [1..m -> {<<>>} \cup {Digits(j) : j \in 1..m}] :
                       \A j \in 1..m : r[j] \in {<<>>, Digits(j)}} : m \in 1..MaxCols}
\* rows of blank fields ahead of the header row
LeadingRows == {<<>>, << <<<<>>, <<" ">>>> >>}
CsvData == {lead \o <<h>> \o body :
               lead \in LeadingRows, h \in HeaderRows,
               body \in {<<>>} \cup {<<r>> : r \in BodyRows}}
                \cup {<<h>> : h \in WideHeaderRows}
                \cup {<<>>}
TokenizerErrors == {<<>>, <<"Quoted field unterminated">>}

InitParse ==
    /\ pc = "parse"
    /\ results \in [status : {"complete"}, data : CsvData, errors : TokenizerErrors]
                     \cup [status : {"error", "load_failed"}, data : {<<>>}, errors : {<<>>}]
    \* tokenizer errors are tried with the short data only
    /\ results.errors # <<>> => Len(results.data) <= 1
    /\ filePath \in {"left.csv", "right.csv"}
    /\ parseResult = NoParseResult
    /\ OthersIdle
    /\ leftData = <<>> /\ rightData = <<>> /\ caseInsensitive = FALSE
    /\ column = <<>> /\ mode = "exclude" /\ filterResult = NoFilterResult
    /\ keyColumn = <<>> /\ valueColumn = <<>> /\ compareResult = NoCompareResult

CallParse ==
    /\ pc = "parse"
    /\ parseResult' = parseCSV(results, filePath)
    /\ pc' = "parsed"
    /\ UNCHANGED <<leftData, rightData, column, mode, caseInsensitive, filterResult,
                   keyColumn, valueColumn, compareResult, results, filePath>>
    /\ UNCHANGED otherVars

SpecParse == InitParse /\ [][CallParse]_vars

InitFilter ==
    /\ pc = "filter"
    /\ leftData \in SeqsUpTo(FilterLeftRows, MaxLeft)
    /\ rightData \in SeqsUpTo(FilterRightRows, MaxRight)
    /\ column \in FilterColumns
    \* a rejected column name is tried with the short lists only
    /\ column = ColBlank => (Len(leftData) <= 1 /\ Len(rightData) <= 1)
    /\ mode \in {"exclude", "include"}
    /\ caseInsensitive \in BOOLEAN
    /\ filterResult = NoFilterResult
    /\ keyColumn = <<>> /\ valueColumn = <<>> /\ compareResult = NoCompareResult
    /\ results = NoResults /\ filePath = "" /\ parseResult = NoParseResult
    /\ OthersIdle

\* faulty variant: the rows are removed from leftData itself
CallFilter_InPlace ==
    /\ pc = "filter"
    /\ filterResult' = filterCsvData(leftData, rightData, column, mode, caseInsensitive)
    /\ leftData' = filterResult'.rows
    /\ pc' = "filtered"
    /\ UNCHANGED <<rightData, column, mode, caseInsensitive, keyColumn,
                   valueColumn, compareResult, results, filePath, parseResult>>
    /\ UNCHANGED otherVars

CallFilter ==
    /\ pc = "filter"
    /\ filterResult' = filterCsvData(leftData, rightData, column, mode, caseInsensitive)
    /\ pc' = "filtered"
    /\ UNCHANGED <<leftData, rightData, column, mode, caseInsensitive, keyColumn,
                   valueColumn, compareResult, results, filePath, parseResult>>
    /\ UNCHANGED otherVars

InitCompare ==
    /\ pc = "compare"
    /\ leftData \in SeqsUpTo(CompareLeftRows, MaxLeft)
    /\ rightData \in SeqsUpTo(CompareRightRows, MaxRight)
    /\ \E cols \in CompareColumns : keyColumn = cols[1] /\ valueColumn = cols[2]
    \* a rejected column name is tried with the short lists only
    /\ (keyColumn = ColBlank \/ valueColumn = ColBlank)
          => (Len(leftData) <= 1 /\ Len(rightData) <= 1)
    /\ caseInsensitive \in BOOLEAN
    /\ compareResult = NoCompareResult
    /\ column = <<>> /\ mode = "exclude" /\ filterResult = NoFilterResult
    /\ results = NoResults /\ filePath = "" /\ parseResult = NoParseResult
    /\ OthersIdle

CallCompare ==
    /\ pc = "compare"
    /\ compareResult' = compareCSVData(leftData, rightData, keyColumn, valueColumn,
                                        caseInsensitive)
    /\ pc' = "compared"
    /\ UNCHANGED <<leftData, rightData, column, mode, caseInsensitive, filterResult,
                   keyColumn, valueColumn, results, filePath, parseResult>>
    /\ UNCHANGED otherVars

SpecCompare == InitCompare /\ [][CallCompare]_vars

\* rows whose key is null, undefined (no key column), the empty string, or the
\* string that NULL_SENTINEL is
ReservedKeyRows ==
    {(ColK :> k) @@ (ColV :> v) :
        k \in {Null, Str(<<>>), Str(NULL_SENTINEL)}, v \in {Str(<<"x">>), Num(1)}}
      \cup {(ColV :> Str(<<"x">>))}

InitCompareKeys ==
    /\ pc = "compare"
    /\ leftData \in SeqsUpTo(ReservedKeyRows, MaxLeft)
    /\ rightData \in SeqsUpTo(ReservedKeyRows, MaxRight)
    /\ keyColumn = ColK /\ valueColumn = ColV
    /\ caseInsensitive \in BOOLEAN
    /\ compareResult = NoCompareResult
    /\ column = <<>> /\ mode = "exclude" /\ filterResult = NoFilterResult
    /\ results = NoResults /\ filePath = "" /\ parseResult = NoParseResult
    /\ OthersIdle

SpecCompareKeys == InitCompareKeys /\ [][CallCompare]_vars

\* Calls of compareCSVData with values that differ in letter case, in
\* surrounding whitespace or in type, under keys that differ in letter case.
CaseLeftRows ==
    {(ColK :> Str(<<"a">>)) @@ (ColV :> v) : v \in {Str(<<"x">>), Str(<<"X">>), Num(1), Null}}
CaseRightRows ==
    {(ColK :> k) @@ (ColV :> v) :
        k \in {Str(<<"a">>), Str(<<"A">>)},
        v \in {Str(<<"x">>), Str(<<"X">>), Str(<<"x", " ">>), Str(<<"1">>)}}

InitCompareValues ==
    /\ pc = "compare"
    /\ leftData \in SeqsUpTo(CaseLeftRows, MaxLeft)
    /\ rightData \in SeqsUpTo(CaseRightRows, MaxRight)
    /\ keyColumn = ColK /\ valueColumn = ColV
    /\ caseInsensitive \in BOOLEAN
    /\ compareResult = NoCompareResult
    /\ column = <<>> /\ mode = "exclude" /\ filterResult = NoFilterResult
    /\ results = NoResults /\ filePath = "" /\ parseResult = NoParseResult
    /\ OthersIdle

SpecCompareValues == InitCompareValues /\ [][CallCompare]_vars

\* Calls of compareCSVData with keys that repeat, on a left list one row longer
OrderRows ==
    {(ColK :> k) @@ (ColV :> Str(<<"x">>)) :
        k \in {Str(<<"a">>), Str(<<"A">>), Str(<<"1">>), Null}}

InitCompareOrder ==
    /\ pc = "compare"
    /\ leftData \in SeqsUpTo(OrderRows, MaxLeft + 1)
    /\ rightData \in SeqsUpTo(OrderRows, MaxRight)
    /\ keyColumn = ColK /\ valueColumn = ColV
    /\ caseInsensitive \in BOOLEAN
    /\ compareResult = NoCompareResult
    /\ column = <<>> /\ mode = "exclude" /\ filterResult = NoFilterResult
    /\ results = NoResults /\ filePath = "" /\ parseResult = NoParseResult
    /\ OthersIdle

SpecCompareOrder == InitCompareOrder /\ [][CallCompare]_vars

SpecFilter == InitFilter /\ [][CallFilter]_vars

\* Calls of filterCsvData and then of compareCSVData with the same two lists,
\* the filter column as key column: keys that are null, missing, the string
\* that NULL_SENTINEL is, or letters that differ in case.
SameListsRows ==
    {(ColK :> k) @@ (ColV :> Str(<<"x">>)) :
        k \in {Null, Str(NULL_SENTINEL), Str(<<"a">>), Str(<<"A">>)}}
      \cup {(ColV :> Str(<<"x">>))}

InitFilterCompare ==
    /\ pc = "filter"
    /\ leftData \in SeqsUpTo(SameListsRows, MaxLeft)
    /\ rightData \in SeqsUpTo(SameListsRows, MaxRight)
    /\ column = ColK /\ keyColumn = ColK /\ valueColumn = ColV
    /\ mode \in {"exclude", "include"}
    /\ caseInsensitive \in BOOLEAN
    /\ filterResult = NoFilterResult /\ compareResult = NoCompareResult
    /\ results = NoResults /\ filePath = "" /\ parseResult = NoParseResult
    /\ OthersIdle

\* compareCSVData called after filterCsvData has returned
CallCompareAfterFilter ==
    /\ pc = "filtered" /\ filterResult.kind = "ok" /\ keyColumn = column
    /\ compareResult' = compareCSVData(leftData, rightData, keyColumn, valueColumn,
                                        caseInsensitive)
    /\ pc' = "compared"
    /\ UNCHANGED <<leftData, rightData, column, mode, caseInsensitive, filterResult,
                   keyColumn, valueColumn, results, filePath, parseResult>>
    /\ UNCHANGED otherVars

SpecFilterCompare == InitFilterCompare /\ [][CallFilter \/ CallCompareAfterFilter]_vars

\* Calls of filterCsvData and of compareCSVData with every kind of column
\* name: a name rows hold, a name no row holds, the empty name and a name of
\* whitespace, on lists of a few rows.
ColEmpty == <<>>
ColumnNames == {ColK, ColV, ColEmpty, ColBlank}
ColumnNameRows == {(ColK :> Str(<<"a">>)) @@ (ColV :> Str(<<"x">>)), (ColZ :> Str(<<"a">>))}

InitColumnNames ==
    /\ leftData \in SeqsUpTo(ColumnNameRows, MaxLeft)
    /\ rightData \in SeqsUpTo(ColumnNameRows, MaxRight)
    /\ caseInsensitive \in BOOLEAN
    /\ \/ /\ pc = "filter"
          /\ column \in ColumnNames /\ mode \in {"exclude", "include"}
          /\ keyColumn = <<>> /\ valueColumn = <<>>
       \/ /\ pc = "compare"
          /\ keyColumn \in ColumnNames /\ valueColumn \in ColumnNames
          /\ column = <<>> /\ mode = "exclude"
    /\ filterResult = NoFilterResult /\ compareResult = NoCompareResult
    /\ results = NoResults /\ filePath = "" /\ parseResult = NoParseResult
    /\ OthersIdle

SpecColumnNames == InitColumnNames /\ [][CallFilter \/ CallCompare]_vars

(***************************************************************************)
(* parseCSV from the text.  The tokenizer, Papa.parse, is a library whose  *)
(* code is not part of the repository; Tokenize follows what the           *)
(* specification says of it (section 4.1, steps 1, 2, 3 and 11): a leading *)
(* byte-order mark is stripped, lines end at a line feed, a literally      *)
(* empty line is skipped, fields end at the delimiter (the comma unless    *)
(* one is given), and a text that is empty or whitespace-only with no      *)
(* delimiter given is reported as an auto-detection error.                 *)
(***************************************************************************)
\* faulty variant: the trim does not take the byte-order mark for whitespace
hasDelimiters_BomNotBlank(content) ==
    IF \E i \in 1..Len(content) : content[i] \notin (Whitespace \ {"BOM"})
    THEN (IF \E i \in 1..Len(content) : content[i] \in {",", "\t", ";", "|"}
          THEN "true" ELSE "false")
    ELSE "undefined"

\* csvContent.trim() ? /[,\t;|]/.test(csvContent) : undefined
hasDelimiters(content) ==
    IF Trim(content) # <<>>
    THEN (IF \E i \in 1..Len(content) : content[i] \in {",", "\t", ";", "|"}
          THEN "true" ELSE "false")
    ELSE "undefined"

\* delimiter: hasDelimiters === false ? '\t' : undefined
delimiterOption(content) == IF hasDelimiters(content) = "false" THEN "\t" ELSE "undefined"

StripBom(text) == IF text # <<>> /\ text[1] = "BOM" THEN Tail(text) ELSE text

\* the pieces of text between the occurrences of sep
RECURSIVE SplitOn(_, _)
SplitOn(text, sep) ==
    IF \A i \in 1..Len(text) : text[i] # sep THEN <<text>>
    ELSE LET i == CHOOSE k \in 1..Len(text) :
                      text[k] = sep /\ \A j \in 1..(k - 1) : text[j] # sep
         IN <<SubSeq(text, 1, i - 1)>> \o SplitOn(SubSeq(text, i + 1, Len(text)), sep)

\* Papa.parse(text, {header: false, skipEmptyLines: true, delimiter}): what the
\* complete callback is handed
Tokenize(text, delimiter) ==
    LET input == StripBom(text)
        lines == SplitOn(input, "\n")
        kept == FilterSeq(lines, [line \in Elems(lines) |-> line # <<>>])
        sep == IF delimiter = "undefined" THEN "," ELSE delimiter
    IN [status |-> "complete",
        data |-> [i \in 1..Len(kept) |-> SplitOn(kept[i], sep)],
        errors |-> IF delimiter = "undefined" /\ Trim(input) = <<>>
                   THEN <<"Unable to auto-detect delimiting character">>
                   ELSE <<>>]

\* the characters of a text
TextChars == {"BOM", "a", ",", "\n", " "}

InitParseText ==
    /\ pc = "parseText"
    /\ csvContent \in SeqsUpTo(TextChars, MaxText)
    /\ ComponentsIdle
    /\ filePath \in {"left.csv", "right.csv"}
    /\ results = NoResults /\ parseResult = NoParseResult
    /\ leftData = <<>> /\ rightData = <<>> /\ caseInsensitive = FALSE
    /\ column = <<>> /\ mode = "exclude" /\ filterResult = NoFilterResult
    /\ keyColumn = <<>> /\ valueColumn = <<>> /\ compareResult = NoCompareResult

\* parseCSV(csvContent, filePath), the tokenizer included
CallParseText ==
    /\ pc = "parseText"
    /\ results' = Tokenize(csvContent, delimiterOption(csvContent))
    /\ parseResult' = parseCSV(results', filePath)
    /\ pc' = "parsed"
    /\ UNCHANGED <<leftData, rightData, column, mode, caseInsensitive, filterResult,
                   keyColumn, valueColumn, compareResult, filePath>>
    /\ UNCHANGED otherVars

SpecParseText == InitParseText /\ [][CallParseText]_vars

\* Calls of filterEmptyRows.  A row holds, under each of the columns k and v,
\* a value or no entry at all; the array handed in is leftData and the array
\* returned is filterResult.rows.
Absent == [t |-> "absent", s |-> <<>>, n |-> 0]
Entry(col, value) == IF value = Absent THEN <<>> ELSE (col :> value)
EmptyRowsRows ==
    {Entry(ColK, k) @@ Entry(ColV, v) :
        k \in {Absent, Str(<<>>), Str(<<" ">>), Str(<<"a">>), Null, Undef},
        v \in {Absent, Num(0), Str(<<"\t">>), Null}}

InitEmptyRows ==
    /\ pc = "emptyRows"
    /\ leftData \in SeqsUpTo(EmptyRowsRows, MaxLeft)
    /\ rightData = <<>> /\ caseInsensitive = FALSE
    /\ column = <<>> /\ mode = "exclude" /\ filterResult = NoFilterResult
    /\ keyColumn = <<>> /\ valueColumn = <<>> /\ compareResult = NoCompareResult
    /\ results = NoResults /\ filePath = "" /\ parseResult = NoParseResult
    /\ OthersIdle

\* data.filter(...) returns an array of its own
CallEmptyRows ==
    /\ pc = "emptyRows"
    /\ filterResult' = FilterOk(filterEmptyRows(leftData), FALSE)
    /\ pc' = "emptied"
    /\ UNCHANGED <<leftData, rightData, column, mode, caseInsensitive, keyColumn,
                   valueColumn, compareResult, results, filePath, parseResult>>
    /\ UNCHANGED otherVars

SpecEmptyRows == InitEmptyRows /\ [][CallEmptyRows]_vars

\* the three functions that take row arrays, each called once
InitArguments == InitColumnNames \/ InitEmptyRows
SpecArguments == InitArguments /\ [][CallFilter \/ CallCompare \/ CallEmptyRows]_vars

(***************************************************************************)
(* The whole core: one call of one of the functions.                       *)
(***************************************************************************)
(***************************************************************************)
(* The App component (App.tsx): the two load buttons, the two paginations  *)
(* and the error snackbar.  A file is what window.api.selectFile() gives:  *)
(* its path and, in place of its content, what Papa.parse hands to the     *)
(* callbacks for that content.                                             *)
(***************************************************************************)
ITEMS_PER_PAGE == 10

\* obj[header || `col_${index + 1}`] = row[index] || '' for each header
appRowToObject(headers, row) ==
    LET obj[i \in 0..Len(headers)] ==
            IF i = 0 THEN <<>>
            ELSE ((IF headers[i] = <<>> THEN ColName(i) ELSE headers[i]) :> CellOr(row, i))
                     @@ obj[i - 1]
    IN obj[Len(headers)]

LoadError(message) == [kind |-> "error", message |-> message, headers |-> <<>>, data |-> <<>>]

\* the complete and error callbacks of Papa.parse: the message they set, or
\* the csvData they build
loadFile(res, path) ==
    IF res.status = "error"
    THEN LoadError(<<"Failed to parse CSV file ", path, ": ">>)
    ELSE IF Len(res.errors) > 0
    THEN LoadError(<<"CSV parsing errors found in ", path, ": ">> \o res.errors)
    ELSE IF Len(res.data) = 0
    THEN LoadError(<<"No data found in CSV file: ", path>>)
    ELSE LET headers == [i \in 1..Len(res.data[1]) |-> stripQuotes(res.data[1][i])]
             duplicates == duplicateHeaders(headers)
             dataRows == [i \in 1..(Len(res.data) - 1) |->
                             appRowToObject(headers, res.data[i + 1])]
         IN IF Len(duplicates) > 0
            THEN LoadError(DuplicateMessage(uniqueDuplicates(duplicates)))
            ELSE [kind |-> "ok", message |-> <<>>, headers |-> headers,
                  data |-> filterEmptyRows(dataRows)]

\* Math.ceil(data.length / ITEMS_PER_PAGE)
totalPages(data) == (Len(data) + ITEMS_PER_PAGE - 1) \div ITEMS_PER_PAGE

\* a table of one column and more rows than a page shows
LongData == <<<<<<"k">>>>>> \o [i \in 1..(ITEMS_PER_PAGE + 1) |-> <<Digits(i)>>]

\* the files of the model: one with a tokenizer error, one without rows, one
\* with a repeated column name, one the tokenizer fails on, and three tables
Files ==
    {[filePath |-> "errors.csv",
      results |-> [status |-> "complete", data |-> <<<<<<"a">>>>>>,
                   errors |-> <<"Quoted field unterminated">>]],
     [filePath |-> "empty.csv",
      results |-> [status |-> "complete", data |-> <<>>, errors |-> <<>>]],
     [filePath |-> "repeated.csv",
      results |-> [status |-> "complete",
                   data |-> <<<<<<"a">>, <<"a">>>>, <<<<"1">>, <<"2">>>>>>,
                   errors |-> <<>>]],
     [filePath |-> "unreadable.csv",
      results |-> [status |-> "error", data |-> <<>>, errors |-> <<>>]],
     [filePath |-> "quoted.csv",
      results |-> [status |-> "complete",
                   data |-> <<<<<<Quote, "a", Quote>>, <<>>>>, <<<<"1">>, <<"2">>>>,
                              <<<<>>, <<" ">>>>>>,
                   errors |-> <<>>]],
     [filePath |-> "table.csv",
      results |-> [status |-> "complete",
                   data |-> <<<<<<"k">>, <<"v">>>>, <<<<"1">>, <<"x">>>>>>,
                   errors |-> <<>>]],
     [filePath |-> "long.csv",
      results |-> [status |-> "complete", data |-> LongData, errors |-> <<>>]]}

InitApp ==
    /\ pc = "app"
    /\ OthersIdle
    /\ leftData = <<>> /\ rightData = <<>> /\ caseInsensitive = FALSE
    /\ column = <<>> /\ mode = "exclude" /\ filterResult = NoFilterResult
    /\ keyColumn = <<>> /\ valueColumn = <<>> /\ compareResult = NoCompareResult
    /\ results = NoResults /\ filePath = "" /\ parseResult = NoParseResult

\* what no action of App touches
appFrame == <<pc, leftData, rightData, column, mode, caseInsensitive, filterResult,
              keyColumn, valueColumn, compareResult, parseResult, csvContent,
              componentVars>>

\* handleFileUpload(isLeft) up to the await: one call at a time for each button
handleFileUpload(isLeft) ==
    /\ pc = "app" /\ isLeft \notin selecting
    /\ selecting' = selecting \cup {isLeft}
    /\ UNCHANGED <<leftCSV, rightCSV, leftPage, rightPage, leftFilePath, rightFilePath,
                   error, errorOpen, results, filePath>>
    /\ UNCHANGED appFrame

\* window.api.selectFile() resolved with null: the handler returns
selectFileCancelled(isLeft) ==
    /\ pc = "app" /\ isLeft \in selecting
    /\ selecting' = selecting \ {isLeft}
    /\ results' = [status |-> "cancelled", data |-> <<>>, errors |-> <<>>]
    /\ filePath' = ""
    /\ UNCHANGED <<leftCSV, rightCSV, leftPage, rightPage, leftFilePath, rightFilePath,
                   error, errorOpen>>
    /\ UNCHANGED appFrame

\* window.api.selectFile() rejected: the catch of handleFileUpload
selectFileRejected(isLeft) ==
    /\ pc = "app" /\ isLeft \in selecting
    /\ selecting' = selecting \ {isLeft}
    /\ results' = [status |-> "rejected", data |-> <<>>, errors |-> <<>>]
    /\ filePath' = ""
    /\ error' = <<"Failed to load file: ">>
    /\ errorOpen' = TRUE
    /\ UNCHANGED <<leftCSV, rightCSV, leftPage, rightPage, leftFilePath, rightFilePath>>
    /\ UNCHANGED appFrame

\* faulty variant: a failed load clears the side being loaded
selectFileResolved_ClearOnError(isLeft, file) ==
    /\ pc = "app" /\ isLeft \in selecting
    /\ selecting' = selecting \ {isLeft}
    /\ results' = file.results /\ filePath' = file.filePath
    /\ LET loaded == loadFile(file.results, file.filePath)
           csvData == [loaded |-> TRUE,
                       id |-> 1 - (IF isLeft THEN leftCSV.id ELSE rightCSV.id),
                       headers |-> loaded.headers, data |-> loaded.data]
       IN IF loaded.kind = "error"
          THEN /\ error' = loaded.message /\ errorOpen' = TRUE
               /\ IF isLeft
                  THEN /\ leftCSV' = NullCSV /\ leftFilePath' = "" /\ leftPage' = 1
                       /\ UNCHANGED <<rightCSV, rightFilePath, rightPage>>
                  ELSE /\ rightCSV' = NullCSV /\ rightFilePath' = "" /\ rightPage' = 1
                       /\ UNCHANGED <<leftCSV, leftFilePath, leftPage>>
          ELSE /\ UNCHANGED <<error, errorOpen>>
               /\ IF isLeft
                  THEN /\ leftCSV' = csvData /\ leftFilePath' = file.filePath
                       /\ leftPage' = 1
                       /\ UNCHANGED <<rightCSV, rightFilePath, rightPage>>
                  ELSE /\ rightCSV' = csvData /\ rightFilePath' = file.filePath
                       /\ rightPage' = 1
                       /\ UNCHANGED <<leftCSV, leftFilePath, leftPage>>
    /\ UNCHANGED appFrame

\* window.api.selectFile() resolved with a file: Papa.parse and its callbacks
selectFileResolved(isLeft, file) ==
    /\ pc = "app" /\ isLeft \in selecting
    /\ selecting' = selecting \ {isLeft}
    /\ results' = file.results /\ filePath' = file.filePath
    /\ LET loaded == loadFile(file.results, file.filePath)
           csvData == [loaded |-> TRUE,
                       id |-> 1 - (IF isLeft THEN leftCSV.id ELSE rightCSV.id),
                       headers |-> loaded.headers, data |-> loaded.data]
       IN IF loaded.kind = "error"
          THEN /\ error' = loaded.message /\ errorOpen' = TRUE
               /\ UNCHANGED <<leftCSV, rightCSV, leftPage, rightPage,
                              leftFilePath, rightFilePath>>
          ELSE /\ UNCHANGED <<error, errorOpen>>
               /\ IF isLeft
                  THEN /\ leftCSV' = csvData /\ leftFilePath' = file.filePath
                       /\ leftPage' = 1
                       /\ UNCHANGED <<rightCSV, rightFilePath, rightPage>>
                  ELSE /\ rightCSV' = csvData /\ rightFilePath' = file.filePath
                       /\ rightPage' = 1
                       /\ UNCHANGED <<leftCSV, leftFilePath, leftPage>>
    /\ UNCHANGED appFrame

\* the Pagination of a table: (_event, page) => setLeftPage(page) / setRightPage(page)
setPage(isLeft, page) ==
    /\ pc = "app"
    /\ LET csv == IF isLeft THEN leftCSV ELSE rightCSV
       IN /\ csv.loaded /\ totalPages(csv.data) > 1
          /\ page \in 1..totalPages(csv.data)
    /\ page # (IF isLeft THEN leftPage ELSE rightPage)
    /\ IF isLeft THEN leftPage' = page /\ UNCHANGED rightPage
                 ELSE rightPage' = page /\ UNCHANGED leftPage
    /\ UNCHANGED <<leftCSV, rightCSV, leftFilePath, rightFilePath, error, errorOpen,
                   selecting, results, filePath>>
    /\ UNCHANGED appFrame

\* the Snackbar's onClose: setErrorOpen(false)
closeError ==
    /\ pc = "app" /\ errorOpen
    /\ errorOpen' = FALSE
    /\ UNCHANGED <<leftCSV, rightCSV, leftPage, rightPage, leftFilePath, rightFilePath,
                   error, selecting, results, filePath>>
    /\ UNCHANGED appFrame

NextApp ==
    \/ \E isLeft \in BOOLEAN : handleFileUpload(isLeft)
    \/ \E isLeft \in BOOLEAN : selectFileCancelled(isLeft)
    \/ \E isLeft \in BOOLEAN : selectFileRejected(isLeft)
    \/ \E isLeft \in BOOLEAN, file \in Files : selectFileResolved(isLeft, file)
    \/ \E isLeft \in BOOLEAN, page \in 1..2 : setPage(isLeft, page)
    \/ closeError

SpecApp == InitApp /\ [][NextApp]_vars

(***************************************************************************)
(* The CsvFilter component (CsvFilter.tsx).  A render is committed with    *)
(* the props and the state of that moment; the effects whose dependencies  *)
(* differ from those of the render before run then, in the order of their  *)
(* declaration and with the values of that render, and the state updates   *)
(* they queue are applied together, in order.  React runs the effects of a *)
(* commit before it renders again, so an event is handled only when none   *)
(* is left to run.  onFilteredDataChange is not passed by App and its       *)
(* effect does nothing.  The dependencies are compared by identity, and    *)
(* only with those of the render before: the identity of a CSVData object  *)
(* or of an onError function is 0 when it is that of the last render whose *)
(* effects have run, and 1 when it is a newer one.                         *)
(***************************************************************************)
\* the dependencies of the current render
Deps ==
    [mounted |-> TRUE, leftCSV |-> leftCSV, rightCSV |-> rightCSV,
     selectedColumnIndex |-> selectedColumnIndex, filterMode |-> filterMode,
     caseInsensitive |-> caseInsensitive, onError |-> onError,
     operationMode |-> operationMode,
     keyColumnIndex |-> keyColumnIndex, valueColumnIndex |-> valueColumnIndex]

\* the dependency arrays of the three effects
resetDeps == {"leftCSV", "rightCSV"}
filterDeps == {"leftCSV", "rightCSV", "selectedColumnIndex", "filterMode",
               "caseInsensitive", "onError", "operationMode"}
\* commonColumns is a memo of leftCSV and rightCSV
compareDeps == {"leftCSV", "rightCSV", "keyColumnIndex", "valueColumnIndex",
                "caseInsensitive", "onError", "operationMode"}

\* an effect runs at the mount and when one of its dependencies has changed
Changed(deps) == ~committed.mounted \/ \E d \in deps : committed[d] # Deps[d]

\* the headers of right that are not blank and are headers of left
commonColumns ==
    IF ~leftCSV.loaded \/ ~rightCSV.loaded THEN <<>>
    ELSE LET leftHeaders == {h \in Elems(leftCSV.headers) : Trim(h) # <<>>}
             all == [i \in 1..Len(rightCSV.headers) |->
                        [header |-> rightCSV.headers[i], index |-> i]]
         IN FilterSeq(all, [c \in Elems(all) |->
                               Trim(c.header) # <<>> /\ c.header \in leftHeaders])

NullResult == [kind |-> "null"]

\* the state the effects set, and App's error state, which onError sets
StateNow ==
    [selectedColumnIndex |-> selectedColumnIndex, caseInsensitive |-> caseInsensitive,
     filteredData |-> filteredData, filteredPage |-> filteredPage,
     keyColumnIndex |-> keyColumnIndex, valueColumnIndex |-> valueColumnIndex,
     comparisonResult |-> comparisonResult, comparisonPage |-> comparisonPage,
     error |-> error, errorOpen |-> errorOpen]

\* App's onError prop: setError(error); setErrorOpen(true)
callOnError(st, message) == [st EXCEPT !.error = message, !.errorOpen = TRUE]

\* faulty variant: the reset leaves the selected filter column as it is
resetEffect_KeepSelection(st) ==
    [st EXCEPT !.caseInsensitive = FALSE,
               !.filteredData = <<>>, !.filteredPage = 1,
               !.keyColumnIndex = 0, !.valueColumnIndex = 0,
               !.comparisonResult = NullResult, !.comparisonPage = 1]

\* useEffect(..., [leftCSV, rightCSV]): reset when the CSV data changes
resetEffect(st) ==
    [st EXCEPT !.selectedColumnIndex = 0, !.caseInsensitive = FALSE,
               !.filteredData = <<>>, !.filteredPage = 1,
               !.keyColumnIndex = 0, !.valueColumnIndex = 0,
               !.comparisonResult = NullResult, !.comparisonPage = 1]

\* filterCsvData(leftCSV.data, rightCSV.data, rightCSV.headers[index], ...): a
\* column that is undefined is rejected as not a string
filterBySelected(index) ==
    IF index > Len(rightCSV.headers) THEN FilterError("Column name must be a string")
    ELSE filterCsvData(leftCSV.data, rightCSV.data, rightCSV.headers[index],
                       filterMode, caseInsensitive)

\* the effect that applies the filter
filterEffect(st) ==
    IF operationMode # "filter" THEN st
    ELSE IF leftCSV.loaded /\ rightCSV.loaded /\ selectedColumnIndex # 0
    THEN LET filtered == filterBySelected(selectedColumnIndex)
         IN IF filtered.kind = "error"
            THEN callOnError(st, <<"Failed to apply filter: ", filtered.message>>)
            ELSE [st EXCEPT !.filteredData = filterEmptyRows(filtered.rows),
                            !.filteredPage = 1]
    ELSE [st EXCEPT !.filteredData = <<>>, !.filteredPage = 1]

\* commonColumns[index]?.header, '' standing for undefined as well
commonHeader(index) ==
    IF index <= Len(commonColumns) THEN commonColumns[index].header ELSE <<>>

\* the effect that applies the comparison
compareEffect(st) ==
    IF operationMode # "compare" THEN st
    ELSE IF leftCSV.loaded /\ rightCSV.loaded /\ keyColumnIndex # 0 /\ valueColumnIndex # 0
    THEN LET keyCol == commonHeader(keyColumnIndex)
             valueCol == commonHeader(valueColumnIndex)
             result == compareCSVData(leftCSV.data, rightCSV.data, keyCol, valueCol,
                                      caseInsensitive)
         IN IF keyCol = <<>> \/ valueCol = <<>>
            THEN [st EXCEPT !.comparisonResult = NullResult]
            ELSE IF result.kind = "error"
            THEN [callOnError(st, <<"Failed to compare: ", result.message>>)
                     EXCEPT !.comparisonResult = NullResult]
            ELSE [st EXCEPT !.comparisonResult = result, !.comparisonPage = 1]
    ELSE [st EXCEPT !.comparisonResult = NullResult, !.comparisonPage = 1]

\* the tables App passes as props: a long one and a short one for the left, and
\* for the right one whose second header is empty and one with two names
LeftTables ==
    {[headers |-> <<<<"k">>, <<"v">>>>,
      data |-> [i \in 1..(ITEMS_PER_PAGE + 1) |->
                   (ColK :> Str(Digits(i))) @@ (ColV :> Str(<<"x">>))]],
     [headers |-> <<<<"k">>, <<"v">>>>,
      data |-> <<(ColK :> Str(<<"1">>)) @@ (ColV :> Str(<<"y">>))>>]}
RightTables ==
    {[headers |-> <<<<"k">>, <<>>>>,
      data |-> <<(ColK :> Str(<<"1">>)) @@ (ColName(2) :> Str(<<"2">>))>>],
     [headers |-> <<<<"k">>, <<"v">>>>,
      data |-> <<(ColK :> Str(<<"2">>)) @@ (ColV :> Str(<<"x">>))>>]}

InitCsvFilter ==
    /\ pc = "component"
    /\ OthersIdle
    /\ leftData = <<>> /\ rightData = <<>> /\ caseInsensitive = FALSE
    /\ column = <<>> /\ mode = "exclude" /\ filterResult = NoFilterResult
    /\ keyColumn = <<>> /\ valueColumn = <<>> /\ compareResult = NoCompareResult
    /\ results = NoResults /\ filePath = "" /\ parseResult = NoParseResult

\* what no step of the component touches
componentFrame == <<pc, leftData, rightData, column, mode, filterResult, keyColumn,
                    valueColumn, compareResult, results, filePath, parseResult,
                    csvContent, leftPage, rightPage, leftFilePath, rightFilePath,
                    selecting>>

\* the effects of the last render have run
Settled == committed = Deps

\* the effects of the current render, and the render their updates cause
runEffects ==
    /\ pc = "component" /\ ~Settled
    /\ LET afterReset == IF Changed(resetDeps) THEN resetEffect(StateNow) ELSE StateNow
           afterFilter == IF Changed(filterDeps) THEN filterEffect(afterReset)
                          ELSE afterReset
           st == IF Changed(compareDeps) THEN compareEffect(afterFilter) ELSE afterFilter
       IN /\ selectedColumnIndex' = st.selectedColumnIndex
          /\ caseInsensitive' = st.caseInsensitive
          /\ filteredData' = st.filteredData /\ filteredPage' = st.filteredPage
          /\ keyColumnIndex' = st.keyColumnIndex
          /\ valueColumnIndex' = st.valueColumnIndex
          /\ comparisonResult' = st.comparisonResult
          /\ comparisonPage' = st.comparisonPage
          /\ error' = st.error /\ errorOpen' = st.errorOpen
          \* App renders again when its state has changed: a new onError function
          /\ onError' = IF st.error # error \/ st.errorOpen # errorOpen THEN 1 ELSE 0
    /\ leftCSV' = [leftCSV EXCEPT !.id = 0]
    /\ rightCSV' = [rightCSV EXCEPT !.id = 0]
    /\ committed' = [Deps EXCEPT !.leftCSV.id = 0, !.rightCSV.id = 0, !.onError = 0]
    /\ UNCHANGED <<operationMode, filterMode>>
    /\ UNCHANGED componentFrame

\* App has loaded a file: a new CSVData object as leftCSV or rightCSV
loadCSV(isLeft, table) ==
    /\ pc = "component" /\ Settled
    /\ IF isLeft
       THEN /\ table \in LeftTables
            /\ leftCSV' = [loaded |-> TRUE, id |-> 1,
                           headers |-> table.headers, data |-> table.data]
            /\ UNCHANGED rightCSV
       ELSE /\ table \in RightTables
            /\ rightCSV' = [loaded |-> TRUE, id |-> 1,
                            headers |-> table.headers, data |-> table.data]
            /\ UNCHANGED leftCSV
    /\ onError' = 1
    /\ UNCHANGED <<operationMode, selectedColumnIndex, filterMode, caseInsensitive,
                   filteredData, filteredPage, keyColumnIndex, valueColumnIndex,
                   comparisonResult, comparisonPage, committed, error, errorOpen>>
    /\ UNCHANGED componentFrame

\* App renders again without loading (the snackbar closes, a page of one of
\* its tables changes): a new onError function
appRenders(close) ==
    /\ pc = "component" /\ Settled
    /\ close => errorOpen
    /\ errorOpen' = IF close THEN FALSE ELSE errorOpen
    /\ onError' = 1
    /\ UNCHANGED <<leftCSV, rightCSV, operationMode, selectedColumnIndex, filterMode,
                   caseInsensitive, filteredData, filteredPage, keyColumnIndex,
                   valueColumnIndex, comparisonResult, comparisonPage, committed, error>>
    /\ UNCHANGED componentFrame

\* the component renders its controls only when rightCSV is loaded
ControlsShown == pc = "component" /\ Settled /\ rightCSV.loaded

setOperationMode(value) ==
    /\ ControlsShown /\ value # operationMode
    /\ operationMode' = value
    /\ UNCHANGED <<leftCSV, rightCSV, selectedColumnIndex, filterMode, caseInsensitive,
                   filteredData, filteredPage, keyColumnIndex, valueColumnIndex,
                   comparisonResult, comparisonPage, committed, error, errorOpen, onError>>
    /\ UNCHANGED componentFrame

setFilterMode(value) ==
    /\ ControlsShown /\ operationMode = "filter" /\ value # filterMode
    /\ filterMode' = value
    /\ UNCHANGED <<leftCSV, rightCSV, operationMode, selectedColumnIndex, caseInsensitive,
                   filteredData, filteredPage, keyColumnIndex, valueColumnIndex,
                   comparisonResult, comparisonPage, committed, error, errorOpen, onError>>
    /\ UNCHANGED componentFrame

\* the checkbox of the filter mode, and that of the compare mode, which is
\* there when the tables have a common column
setCaseInsensitive(checked) ==
    /\ ControlsShown /\ (operationMode = "filter" \/ commonColumns # <<>>)
    /\ checked # caseInsensitive
    /\ caseInsensitive' = checked
    /\ UNCHANGED <<leftCSV, rightCSV, operationMode, selectedColumnIndex, filterMode,
                   filteredData, filteredPage, keyColumnIndex, valueColumnIndex,
                   comparisonResult, comparisonPage, committed, error, errorOpen, onError>>
    /\ UNCHANGED componentFrame

\* the Select lists every header of rightCSV, the empty ones too
setSelectedColumnIndex(index) ==
    /\ ControlsShown /\ operationMode = "filter"
    /\ index \in 1..Len(rightCSV.headers) /\ index # selectedColumnIndex
    /\ selectedColumnIndex' = index
    /\ UNCHANGED <<leftCSV, rightCSV, operationMode, filterMode, caseInsensitive,
                   filteredData, filteredPage, keyColumnIndex, valueColumnIndex,
                   comparisonResult, comparisonPage, committed, error, errorOpen, onError>>
    /\ UNCHANGED componentFrame

\* the two Selects of the compare mode list commonColumns
setKeyColumnIndex(index) ==
    /\ ControlsShown /\ operationMode = "compare"
    /\ index \in 1..Len(commonColumns) /\ index # keyColumnIndex
    /\ keyColumnIndex' = index
    /\ UNCHANGED <<leftCSV, rightCSV, operationMode, selectedColumnIndex, filterMode,
                   caseInsensitive, filteredData, filteredPage, valueColumnIndex,
                   comparisonResult, comparisonPage, committed, error, errorOpen, onError>>
    /\ UNCHANGED componentFrame

setValueColumnIndex(index) ==
    /\ ControlsShown /\ operationMode = "compare"
    /\ index \in 1..Len(commonColumns) /\ index # valueColumnIndex
    /\ valueColumnIndex' = index
    /\ UNCHANGED <<leftCSV, rightCSV, operationMode, selectedColumnIndex, filterMode,
                   caseInsensitive, filteredData, filteredPage, keyColumnIndex,
                   comparisonResult, comparisonPage, committed, error, errorOpen, onError>>
    /\ UNCHANGED componentFrame

\* the Pagination under the filtered rows
setFilteredPage(page) ==
    /\ ControlsShown /\ operationMode = "filter"
    /\ totalPages(filteredData) > 1 /\ page \in 1..totalPages(filteredData)
    /\ page # filteredPage
    /\ filteredPage' = page
    /\ UNCHANGED <<leftCSV, rightCSV, operationMode, selectedColumnIndex, filterMode,
                   caseInsensitive, filteredData, keyColumnIndex, valueColumnIndex,
                   comparisonResult, comparisonPage, committed, error, errorOpen, onError>>
    /\ UNCHANGED componentFrame

\* the Pagination under the comparison rows
setComparisonPage(page) ==
    /\ ControlsShown /\ operationMode = "compare" /\ comparisonResult.kind = "ok"
    /\ totalPages(comparisonResult.rows) > 1
    /\ page \in 1..totalPages(comparisonResult.rows) /\ page # comparisonPage
    /\ comparisonPage' = page
    /\ UNCHANGED <<leftCSV, rightCSV, operationMode, selectedColumnIndex, filterMode,
                   caseInsensitive, filteredData, filteredPage, keyColumnIndex,
                   valueColumnIndex, comparisonResult, committed, error, errorOpen, onError>>
    /\ UNCHANGED componentFrame

NextCsvFilter ==
    \/ runEffects
    \/ \E isLeft \in BOOLEAN, table \in LeftTables \cup RightTables : loadCSV(isLeft, table)
    \/ \E close \in BOOLEAN : appRenders(close)
    \/ \E value \in {"filter", "compare"} : setOperationMode(value)
    \/ \E value \in {"exclude", "include"} : setFilterMode(value)
    \/ \E checked \in BOOLEAN : setCaseInsensitive(checked)
    \/ \E index \in 1..2 : setSelectedColumnIndex(index)
    \/ \E index \in 1..2 : setKeyColumnIndex(index)
    \/ \E index \in 1..2 : setValueColumnIndex(index)
    \/ \E page \in 1..2 : setFilteredPage(page)
    \/ \E page \in 1..2 : setComparisonPage(page)

SpecCsvFilter == InitCsvFilter /\ [][NextCsvFilter]_vars

\* React runs the effects of a render it has committed: weak fairness of
\* runEffects.  runEffects is enabled exactly when effects are pending, and
\* the fairness condition is written with that in place of ENABLED.
EffectsPending == pc = "component" /\ ~Settled
FairEffects == []<>(~EffectsPending) \/ []<><<runEffects>>_vars
SpecCsvFilterLive == SpecCsvFilter /\ FairEffects

Init == InitFilter \/ InitCompare \/ InitParse \/ InitEmptyRows \/ InitParseText \/ InitFilterCompare
          \/ InitCompareValues \/ InitCompareOrder \/ InitApp \/ InitCsvFilter

Next == CallFilter \/ CallCompare \/ CallParse \/ CallEmptyRows \/ CallParseText
          \/ CallCompareAfterFilter \/ NextApp \/ NextCsvFilter

Spec == Init /\ [][Next]_vars

(***************************************************************************)
(* Statements about filterCsvData.  They are written against the inputs    *)
(* and the returned rows only, with their own notion of a match.           *)
(***************************************************************************)
Filtered == pc = "filtered" /\ filterResult.kind = "ok"

\* some row of rightData holds the key column
ColumnInRight == \E j \in 1..Len(rightData) : column \in DOMAIN rightData[j]

Fold(s) == IF caseInsensitive THEN ToLowerCase(s) ELSE s

\* two cell values with the same normalized value
SameNormalized(a, b) ==
    \/ IsNullish(a) /\ IsNullish(b)
    \/ ~IsNullish(a) /\ ~IsNullish(b) /\ Fold(StringOf(a)) = Fold(StringOf(b))

\* the row's value at column is the value at column of some right row
InRight(row) ==
    \E j \in 1..Len(rightData) : SameNormalized(Get(row, column), Get(rightData[j], column))

\* the left rows the mode asks for, in their original order
Wanted(row) == IF mode = "include" THEN InRight(row) ELSE ~InRight(row)
WantedRows == SelectSeq(leftData, Wanted)

Count(seq, row) == Cardinality({i \in 1..Len(seq) : seq[i] = row})

OtherMode == IF mode = "include" THEN "exclude" ELSE "include"
OtherResult == filterCsvData(leftData, rightData, column, OtherMode, caseInsensitive)

\* C4: when column exists in some right row, the exclude result and the include
\* result partition left: each left row lies in exactly one of the two results
\* (with its multiplicity), and neither result holds a row that is not in left.
C4_Partition ==
    (Filtered /\ ColumnInRight) =>
        /\ OtherResult.kind = "ok"
        /\ \A row \in Elems(leftData) :
              /\ Count(filterResult.rows, row) + Count(OtherResult.rows, row)
                    = Count(leftData, row)
              /\ Count(filterResult.rows, row) = 0 \/ Count(OtherResult.rows, row) = 0
        /\ Elems(filterResult.rows) \subseteq Elems(leftData)
        /\ Elems(OtherResult.rows) \subseteq Elems(leftData)

C4_Witness ==
    /\ Filtered /\ ColumnInRight /\ Len(leftData) = 2
    /\ Len(filterResult.rows) = 1 /\ Len(OtherResult.rows) = 1
    /\ filterResult.rows # OtherResult.rows

NullishAt(row) == IsNullish(Get(row, column))

\* C5 as stated: when the set of right values is built, a left row whose value at
\* column is null or undefined is never a member of it: exclude always keeps the
\* row, include never does.
C5_AsStated ==
    (Filtered /\ ColumnInRight) =>
        \A i \in 1..Len(leftData) :
            NullishAt(leftData[i]) =>
                IF mode = "include" THEN leftData[i] \notin Elems(filterResult.rows)
                ELSE leftData[i] \in Elems(filterResult.rows)

\* C5 amended: when column is a key of some right row, a left row whose value at
\* column is null or undefined is a member of the right-value set exactly when
\* some right row has null, undefined or no value at column; no string or
\* number in right makes it match.
C5_NullishMatchesNullish ==
    (Filtered /\ ColumnInRight) =>
        \A i \in 1..Len(leftData) :
            NullishAt(leftData[i]) =>
                LET member == \E j \in 1..Len(rightData) : NullishAt(rightData[j])
                    kept == leftData[i] \in Elems(filterResult.rows)
                IN kept = (IF mode = "include" THEN member ELSE ~member)

C5_Witness ==
    /\ Filtered /\ ColumnInRight /\ mode = "exclude"
    /\ Len(leftData) = 2 /\ Get(leftData[1], column) = Null
    /\ column \in DOMAIN leftData[2] /\ Get(leftData[2], column) = Undef
    /\ \A j \in 1..Len(rightData) : Get(rightData[j], column) = Null
    /\ filterResult.rows = <<>>

\* a right row holds column with the value null or undefined
RightHoldsNullish ==
    \E j \in 1..Len(rightData) : column \in DOMAIN rightData[j] /\ NullishAt(rightData[j])

Compared == pc = "compared" /\ compareResult.kind = "ok"

\* the normalized key of a key value: one key for null and undefined, else the
\* string form, lowercased when caseInsensitive
NoKey == [nullish |-> TRUE, s |-> <<>>]
KeyOf(v) == IF IsNullish(v) THEN NoKey ELSE [nullish |-> FALSE, s |-> Fold(StringOf(v))]
RowKey(row) == KeyOf(Get(row, keyColumn))

KeysOf(data) == {RowKey(data[i]) : i \in 1..Len(data)}
AllKeys == KeysOf(leftData) \cup KeysOf(rightData)

\* the value a side holds for a key: that of its last row with the key
LastIndex(data, key) ==
    CHOOSE i \in 1..Len(data) :
        /\ RowKey(data[i]) = key
        /\ \A j \in (i + 1)..Len(data) : RowKey(data[j]) # key
SideValue(data, key) == Get(data[LastIndex(data, key)], valueColumn)

\* String(value ?? '').trim()
ValueText(v) == IF IsNullish(v) THEN <<>> ELSE Trim(StringOf(v))

ExpectedStatus(key) ==
    IF key \notin KeysOf(rightData) THEN "only left"
    ELSE IF key \notin KeysOf(leftData) THEN "only right"
    ELSE IF ValueText(SideValue(leftData, key)) = ValueText(SideValue(rightData, key))
         THEN "matched" ELSE "diff"

RowsOfKey(key) ==
    {i \in 1..Len(compareResult.rows) : KeyOf(compareResult.rows[i].keyValue) = key}

HasStatus(st) == \E i \in 1..Len(compareResult.rows) : compareResult.rows[i].status = st

StatusCount(st) ==
    Cardinality({i \in 1..Len(compareResult.rows) : compareResult.rows[i].status = st})

\* C2: total = rows.length = matched + diff + onlyLeft + onlyRight, each count
\* is the number of rows with that status, and total is the number of distinct
\* normalized keys of left and right.
C2_SummaryReconciles ==
    Compared =>
        LET sm == compareResult.summary
        IN /\ sm.total = Len(compareResult.rows)
           /\ sm.total = sm.matched + sm.diff + sm.onlyLeft + sm.onlyRight
           /\ sm.matched = StatusCount("matched")
           /\ sm.diff = StatusCount("diff")
           /\ sm.onlyLeft = StatusCount("only left")
           /\ sm.onlyRight = StatusCount("only right")
           /\ sm.total = Cardinality(AllKeys)

C2_Witness ==
    /\ Compared /\ Len(leftData) = 2 /\ Len(rightData) = 2
    /\ compareResult.summary.total = 2
    /\ compareResult.summary.diff = 1 /\ compareResult.summary.onlyRight = 1

\* a value as an output row shows it: null for undefined
Shown(v) == IF v = Undef THEN Null ELSE v

ValidColumnNames == Trim(keyColumn) # <<>> /\ Trim(valueColumn) # <<>>

\* C13: when several rows of one side share the same normalized key, only the
\* last of them, in input order, determines that side's value for the key; no
\* error is raised and the key yields a single output row.
C13_LastRowWins ==
    (pc = "compared" /\ ValidColumnNames) =>
        /\ compareResult.kind = "ok"
        /\ \A key \in AllKeys :
              /\ Cardinality(RowsOfKey(key)) = 1
              /\ \A i \in RowsOfKey(key) :
                    /\ key \in KeysOf(leftData) =>
                          compareResult.rows[i].leftValue = Shown(SideValue(leftData, key))
                    /\ key \in KeysOf(rightData) =>
                          compareResult.rows[i].rightValue = Shown(SideValue(rightData, key))

\* two left rows whose keys differ in case only, with different values
C13_Witness ==
    /\ Compared /\ caseInsensitive /\ Len(leftData) = 2 /\ rightData = <<>>
    /\ Get(leftData[1], keyColumn) # Get(leftData[2], keyColumn)
    /\ RowKey(leftData[1]) = RowKey(leftData[2])
    /\ Get(leftData[1], valueColumn) # Get(leftData[2], valueColumn)
    /\ Len(compareResult.rows) = 1
    /\ compareResult.rows[1].leftValue = Get(leftData[2], valueColumn)

\* C14 as stated: a side's value is the row's valueColumn entry coerced to null
\* when it is null or undefined; no output row has leftValue or rightValue
\* equal to undefined.
C14_AsStated ==
    Compared =>
        \A i \in 1..Len(compareResult.rows) :
            /\ compareResult.rows[i].leftValue # Undef
            /\ compareResult.rows[i].rightValue # Undef

\* C14, amended: on a side that holds the row's key the value is never
\* undefined, and is null when the valueColumn entry of the side's row is null
\* or undefined; on a side that does not hold the key the value is undefined.
C14_UndefinedOnlyForAbsentSide ==
    Compared =>
        \A i \in 1..Len(compareResult.rows) :
            LET key == KeyOf(compareResult.rows[i].keyValue)
                row == compareResult.rows[i]
            IN /\ IF key \in KeysOf(leftData)
                  THEN /\ row.leftValue # Undef
                       /\ IsNullish(SideValue(leftData, key)) => row.leftValue = Null
                  ELSE row.leftValue = Undef
               /\ IF key \in KeysOf(rightData)
                  THEN /\ row.rightValue # Undef
                       /\ IsNullish(SideValue(rightData, key)) => row.rightValue = Null
                  ELSE row.rightValue = Undef

\* a right row without the value column, under a key that left does not hold
C14_Witness ==
    /\ Compared /\ Len(leftData) = 1 /\ Len(rightData) = 1
    /\ valueColumn \notin DOMAIN rightData[1]
    /\ Len(compareResult.rows) = 2
    /\ compareResult.rows[1].status = "only left"
    /\ compareResult.rows[1].rightValue = Undef
    /\ compareResult.rows[2].status = "only right"
    /\ compareResult.rows[2].leftValue = Undef
    /\ compareResult.rows[2].rightValue = Null

\* what an output row shows for a side and a key: the value of the side's last
\* row with the key, or undefined when the side does not hold the key
ShownSideValue(data, key) ==
    IF key \in KeysOf(data) THEN Shown(SideValue(data, key)) ELSE Undef

\* C15 as stated: rows whose key is null or undefined are all normalized to
\* one reserved key that is distinct from every possible string key: the
\* null/undefined keys of both sides collide into one output row, and a
\* null/undefined key is never merged with a row whose key is a string (in
\* particular the empty string).
C15_AsStated ==
    Compared =>
        /\ NoKey \in AllKeys =>
              \E i \in 1..Len(compareResult.rows) :
                 /\ compareResult.rows[i].keyValue = Null
                 /\ compareResult.rows[i].leftValue = ShownSideValue(leftData, NoKey)
                 /\ compareResult.rows[i].rightValue = ShownSideValue(rightData, NoKey)
                 /\ \A j \in 1..Len(compareResult.rows) :
                       compareResult.rows[j].keyValue = Null => j = i
        /\ \A key \in AllKeys \ {NoKey} :
              \E i \in 1..Len(compareResult.rows) :
                 /\ ~IsNullish(compareResult.rows[i].keyValue)
                 /\ KeyOf(compareResult.rows[i].keyValue) = key
                 /\ compareResult.rows[i].leftValue = ShownSideValue(leftData, key)
                 /\ compareResult.rows[i].rightValue = ShownSideValue(rightData, key)

\* the key value, as a row shows it, of the last row of data with the key
LastKeyValue(data, key) == Shown(Get(data[LastIndex(data, key)], keyColumn))

\* C16 as stated: the keyValue of an output row is the original key value from
\* the left side whenever the normalized key is present in left, and the right
\* side's original key value only when the key is absent from left.
C16_AsStated ==
    Compared =>
        /\ \A key \in AllKeys :
              \E i \in 1..Len(compareResult.rows) :
                 compareResult.rows[i].keyValue =
                    IF key \in KeysOf(leftData) THEN LastKeyValue(leftData, key)
                    ELSE LastKeyValue(rightData, key)
        /\ \A i \in 1..Len(compareResult.rows) :
              \E key \in AllKeys :
                 compareResult.rows[i].keyValue =
                    IF key \in KeysOf(leftData) THEN LastKeyValue(leftData, key)
                    ELSE LastKeyValue(rightData, key)

(***************************************************************************)
(* Statements about parseCSV, written against the tokenizer output and     *)
(* the settled result.                                                     *)
(***************************************************************************)
Parsed == pc = "parsed"
ParsedOk == Parsed /\ parseResult.kind = "ok"

\* the tokenizer completed without errors and some row has a non-blank field
ReachedHeaderRow ==
    /\ results.status = "complete" /\ results.errors = <<>>
    /\ \E i \in 1..Len(results.data) : NonBlankRow(results.data[i])

\* position of the header row: the first row with a non-blank field
HeaderRowIndex ==
    CHOOSE i \in 1..Len(results.data) :
        /\ NonBlankRow(results.data[i])
        /\ \A j \in 1..(i - 1) : ~NonBlankRow(results.data[j])

\* a header cell without the double quotes that wrap it
Unquoted(cell) ==
    IF Len(cell) >= 1 /\ Head(cell) = Quote /\ cell[Len(cell)] = Quote
    THEN [i \in 1..(Len(cell) - 2) |-> cell[i + 1]]
    ELSE cell
HeaderNames ==
    [i \in 1..Len(results.data[HeaderRowIndex]) |-> Unquoted(results.data[HeaderRowIndex][i])]

EmptyPositions(names) == {i \in 1..Len(names) : names[i] = <<>>}

\* the key of the column at 1-based position pos, as C9 states it
StatedKey(names, pos) ==
    IF names[pos] # <<>> THEN names[pos]
    ELSE IF EmptyPositions(names) = {pos} /\ pos = Len(names) THEN ColName(pos)
    ELSE IF \A j \in EmptyPositions(names) : pos <= j THEN <<>>
    ELSE ColName(pos)

\* C9 as stated: in each row mapping a non-empty header is the key as-is, the
\* first empty header has key '' and each later empty header at 0-based index i
\* has key col_(i+1), except that a single empty header in the last column has
\* key col_N; a key given to one position only holds that position's field.
C9_AsStated ==
    (ParsedOk /\ ReachedHeaderRow /\ Len(parseResult.data) = 1) =>
        LET names == HeaderNames
            obj == parseResult.data[1]
            raw == results.data[HeaderRowIndex + 1]
        IN /\ DOMAIN obj = {StatedKey(names, pos) : pos \in 1..Len(names)}
           /\ \A pos \in 1..Len(names) :
                 (\A q \in 1..Len(names) : StatedKey(names, q) = StatedKey(names, pos) => q = pos)
                    => obj[StatedKey(names, pos)] = CellOr(raw, pos)

HasDuplicateName(names) ==
    \E i, j \in 1..Len(names) : i < j /\ names[i] = names[j] /\ names[i] # <<>>

\* C10: parse fails with duplicate_headers exactly when a non-empty header name,
\* quotes stripped, occurs twice in the header row; names are compared as they
\* are (case and surrounding whitespace count) and empty names never collide.
C10_DuplicateHeaders ==
    Parsed =>
        LET failed == parseResult.kind = "error" /\ parseResult.type = "duplicate_headers"
        IN IF ReachedHeaderRow THEN failed = HasDuplicateName(HeaderNames) ELSE ~failed

C10_Witness ==
    /\ Parsed /\ parseResult.kind = "error" /\ parseResult.type = "duplicate_headers"
    /\ LET raw == results.data[HeaderRowIndex]
       IN /\ Len(raw) = 3
          /\ \A i, j \in 1..3 : i # j => raw[i] # raw[j]
          /\ \E i \in 1..3 : raw[i] = <<"A">>

\* the names at the positions P of names, by ascending position
NamesAt(names, P) ==
    LET at[i \in 0..Len(names)] ==
            IF i = 0 THEN <<>>
            ELSE IF i \in P THEN at[i - 1] \o <<names[i]>> ELSE at[i - 1]
    IN at[Len(names)]

\* positions where a non-empty name that occurs again later occurs first
FirstOccurrences(names) ==
    {i \in 1..Len(names) :
        /\ names[i] # <<>>
        /\ \A j \in 1..(i - 1) : names[j] # names[i]
        /\ \E j \in (i + 1)..Len(names) : names[j] = names[i]}

\* positions where a non-empty name occurs for the second time
FirstRepeats(names) ==
    {i \in 1..Len(names) :
        /\ names[i] # <<>>
        /\ Cardinality({j \in 1..(i - 1) : names[j] = names[i]}) = 1}

\* the names of list written one after the other with ", " between them
CommaList(list) ==
    LET upTo[i \in 0..Len(list)] ==
            IF i = 0 THEN <<>>
            ELSE IF i = 1 THEN list[1]
            ELSE upTo[i - 1] \o <<",", " ">> \o list[i]
    IN upTo[Len(list)]

MessageListing(list) ==
    <<"CSV file contains duplicate column names: ">> \o CommaList(list)
        \o <<". Please fix the file and try again.">>

FailedDuplicateHeaders ==
    Parsed /\ parseResult.kind = "error" /\ parseResult.type = "duplicate_headers"

\* C11 as stated: when parse fails with duplicate_headers, the message lists
\* each duplicated header name exactly once, in first-occurrence order, joined
\* by ", ", and the error names the sourceLabel.
C11_AsStated ==
    FailedDuplicateHeaders =>
        /\ parseResult.message = MessageListing(NamesAt(HeaderNames, FirstOccurrences(HeaderNames)))
        /\ parseResult.filePath = filePath

\* C11, amended: when parse fails with duplicate_headers, the message lists
\* each duplicated header name exactly once, in the order in which the names
\* occur for the second time in the header row, joined by ", ", and the error
\* carries the sourceLabel as its filePath.
C11_DuplicateMessage ==
    FailedDuplicateHeaders =>
        /\ parseResult.message = MessageListing(NamesAt(HeaderNames, FirstRepeats(HeaderNames)))
        /\ parseResult.filePath = filePath

\* two names repeat, and the one that occurs first repeats last
C11_Witness ==
    /\ FailedDuplicateHeaders
    /\ HeaderNames = <<<<"a">>, <<"A">>, <<"A">>, <<"a">>>>
    /\ parseResult.message = MessageListing(<<<<"A">>, <<"a">>>>)
    /\ filePath = "right.csv"

\* a field of whitespace only, or empty
BlankField(field) == \A i \in 1..Len(field) : field[i] \in Whitespace
\* the tokenizer completed and no row of its output has a field with content
NoRowWithContent ==
    /\ results.status = "complete"
    /\ \A i \in 1..Len(results.data) :
          \A j \in 1..Len(results.data[i]) : BlankField(results.data[i][j])

EmptyTable == ParsedOk /\ parseResult.headers = <<>> /\ parseResult.data = <<>>
FailedAs(type) == Parsed /\ parseResult.kind = "error" /\ parseResult.type = type

\* C12 as stated: if the tokenizer output contains no rows (no row with any
\* non-blank field), parse succeeds with the empty Table (headers = [],
\* data = []) and does not fail with any error kind.
C12_AsStated == (Parsed /\ NoRowWithContent) => EmptyTable

\* C12, amended: if the tokenizer reports no errors and its output has at
\* least one row but no row with a non-blank field, parse succeeds with the
\* empty Table; an output without any row fails with invalid_data, and an
\* output for which the tokenizer reports errors fails with parsing_error.
C12_AllBlankRows ==
    (Parsed /\ NoRowWithContent) =>
        IF results.errors # <<>> THEN FailedAs("parsing_error")
        ELSE IF results.data = <<>> THEN FailedAs("invalid_data")
        ELSE EmptyTable

\* several rows, all of blank fields, one of them of whitespace
C12_Witness ==
    /\ Parsed /\ NoRowWithContent /\ results.errors = <<>>
    /\ Len(results.data) >= 2
    /\ \E i \in 1..Len(results.data) : \E j \in 1..Len(results.data[i]) :
          results.data[i][j] = <<" ">>
    /\ EmptyTable

(***************************************************************************)
(* Statements about the column names given to filterCsvData and to         *)
(* compareCSVData.                                                         *)
(***************************************************************************)
\* C17: an empty or whitespace-only column name is always rejected: the filter
\* fails when column is empty or whitespace-only and compare fails when
\* keyColumn or valueColumn is, for every left and right, empty lists
\* included, and no rows or result are returned.
C17_BlankColumnRejected ==
    /\ (pc = "filtered" /\ BlankField(column)) =>
          (filterResult.kind = "error" /\ filterResult.rows = <<>>)
    /\ (pc = "compared" /\ (BlankField(keyColumn) \/ BlankField(valueColumn))) =>
          (compareResult.kind = "error" /\ DOMAIN compareResult = {"kind", "message"})

\* a whitespace-only column with both lists empty
C17_Witness ==
    /\ pc = "filtered" /\ column = <<" ">> /\ leftData = <<>> /\ rightData = <<>>
    /\ filterResult.kind = "error"

(***************************************************************************)
(* Statements about filterEmptyRows and about the arrays handed in and     *)
(* returned.                                                               *)
(***************************************************************************)
\* a value that is null, undefined, or a string of whitespace only; a number
\* is never such a value
EmptyValue(v) == v.t \in {"null", "undef"} \/ (v.t = "str" /\ BlankField(v.s))
EmptyRow(row) == \A k \in DOMAIN row : EmptyValue(row[k])

\* C18: filterEmptyRows removes exactly the rows in which every value is null,
\* undefined or trims to the empty string (a row containing numeric zero is
\* kept), keeps all other rows in their original order, and is idempotent.
C18_EmptyRowsRemoved ==
    pc = "emptied" =>
        /\ filterResult.rows =
              NamesAt(leftData, {i \in 1..Len(leftData) : ~EmptyRow(leftData[i])})
        /\ filterEmptyRows(filterResult.rows) = filterResult.rows

\* a row of nothing but null and whitespace ahead of a row with a blank string
\* and the number zero
C18_Witness ==
    /\ pc = "emptied" /\ Len(leftData) = 2
    /\ leftData[1] = (ColK :> Null) @@ (ColV :> Str(<<"\t">>))
    /\ leftData[2] = (ColK :> Str(<<" ">>)) @@ (ColV :> Num(0))
    /\ filterResult.rows = <<leftData[2]>>

\* C19 as stated: the list returned by the filter and by filterEmptyRows is
\* always a freshly allocated list, never the same list object as the list the
\* caller passed.
C19_AsStated ==
    (pc \in {"filtered", "emptied"} /\ filterResult.kind = "ok") => ~filterResult.sameArray

\* C20: the filter, filterEmptyRows and compare never mutate their arguments:
\* across any call, successful or failing, the left and right lists hold the
\* same rows, in the same order, with the same entries.
C20_ArgumentsUnchanged == [][leftData' = leftData /\ rightData' = rightData]_vars

\* a call of the filter that dropped one of two rows has returned
C20_Witness ==
    /\ pc = "filtered" /\ filterResult.kind = "ok"
    /\ Len(leftData) = 2 /\ Len(filterResult.rows) = 1

(***************************************************************************)
(* Statements about how a parseCSV call settles.                           *)
(***************************************************************************)
ErrorTypes == {"parsing_error", "duplicate_headers", "invalid_data"}

\* C21: every parse call settles exactly once, either with a Table or with a
\* ParseError, never with a Table alongside an error; every ParseError, on
\* every failure path, carries filePath equal to the sourceLabel argument and
\* a type among parsing_error, duplicate_headers and invalid_data.
C21_SettlesOnce ==
    Parsed =>
        /\ Len(settle(results, filePath)) = 1
        /\ parseResult.kind \in {"ok", "error"}
        /\ parseResult.kind = "error" =>
              /\ parseResult.filePath = filePath
              /\ parseResult.type \in ErrorTypes
              /\ parseResult.headers = <<>> /\ parseResult.data = <<>>
        /\ parseResult.kind = "ok" => (parseResult.type = "" /\ parseResult.message = <<>>)
        /\ (results.status # "complete" \/ results.errors # <<>> \/ results.data = <<>>)
              => parseResult.kind = "error"

\* the library failed to load for the right file
C21_Witness ==
    /\ Parsed /\ results.status = "load_failed" /\ filePath = "right.csv"
    /\ parseResult.kind = "error" /\ parseResult.type = "parsing_error"
    /\ parseResult.filePath = "right.csv"

(***************************************************************************)
(* Statements about parseCSV and the byte-order mark.                      *)
(***************************************************************************)
\* headers and data of a Table, or the kind of the error
Outcome(r) == IF r.kind = "ok" THEN <<"ok", r.headers, r.data>> ELSE <<"error", r.type>>
ParseOf(text) == parseCSV(Tokenize(text, delimiterOption(text)), filePath)
StartsWithBom(text) == text # <<>> /\ text[1] = "BOM"

\* C22 as stated: for every text t, parse(BOM + t) produces the same outcome
\* (same headers and data, or the same error kind) as parse(t).
C22_AsStated ==
    (Parsed /\ StartsWithBom(csvContent)) =>
        Outcome(parseResult) = Outcome(ParseOf(Tail(csvContent)))

\* C22, amended: for every text t that does not itself start with a
\* byte-order mark, parse(BOM + t) produces the same outcome as parse(t).
C22_BomTransparent ==
    (Parsed /\ StartsWithBom(csvContent) /\ ~StartsWithBom(Tail(csvContent))) =>
        Outcome(parseResult) = Outcome(ParseOf(Tail(csvContent)))

\* a text of one column, a header and a row, behind a byte-order mark
C22_Witness ==
    /\ Parsed /\ csvContent = <<"BOM", "a", "\n", "a">>
    /\ parseResult.kind = "ok" /\ parseResult.headers = <<<<"a">>>>
    /\ parseResult.data = <<(<<"a">> :> Str(<<"a">>))>>

(***************************************************************************)
(* Statements about the keys of the parsed rows.                           *)
(***************************************************************************)
\* C25 as stated: in a successful parse the keys given to the header positions
\* are pairwise distinct, so every row has exactly headers.length keys and no
\* column's field is overwritten by another column's, a header named like a
\* synthetic key (col_3) included.
C25_AsStated ==
    ParsedOk =>
        \A i \in 1..Len(parseResult.data) :
            Cardinality(DOMAIN parseResult.data[i]) = Len(parseResult.headers)

\* C26 as stated: in a successful parse every name in headers, the empty name
\* included, is a key of every row of data.
C26_AsStated ==
    ParsedOk =>
        \A i \in 1..Len(parseResult.data) : \A pos \in 1..Len(parseResult.headers) :
            parseResult.headers[pos] \in DOMAIN parseResult.data[i]

\* the only empty header is the last column
SingleTrailingEmpty(names) == EmptyPositions(names) = {Len(names)}

\* C26, amended: in a successful parse every name in headers is a key of every
\* row of data, the empty name included, except when the only empty header is
\* the last column: that column's key is col_N and the empty name is no key.
C26_HeaderNamesAreKeys ==
    ParsedOk =>
        \A i \in 1..Len(parseResult.data) :
            LET names == parseResult.headers
                row == parseResult.data[i]
            IN IF SingleTrailingEmpty(names)
               THEN /\ \A pos \in 1..(Len(names) - 1) : names[pos] \in DOMAIN row
                    /\ <<>> \notin DOMAIN row
                    /\ ColName(Len(names)) \in DOMAIN row
               ELSE \A pos \in 1..Len(names) : names[pos] \in DOMAIN row

\* an empty header in front and a second one at the end: the empty name is a key
C26_Witness ==
    /\ ParsedOk /\ Len(parseResult.data) = 1
    /\ parseResult.headers = <<<<>>, <<"a">>, <<>>>>
    /\ <<>> \in DOMAIN parseResult.data[1]

(***************************************************************************)
(* Statements about filterCsvData and compareCSVData on the same lists.    *)
(***************************************************************************)
FilteredAndCompared == pc = "compared" /\ filterResult.kind = "ok" /\ compareResult.kind = "ok"

\* the statuses compare gives to the key of a left row
StatusesOf(row) ==
    {compareResult.rows[i].status : i \in RowsOfKey(RowKey(row))}

KeptByStatus(row) ==
    IF mode = "exclude" THEN StatusesOf(row) = {"only left"}
    ELSE StatusesOf(row) # {} /\ StatusesOf(row) \subseteq {"matched", "diff"}

\* C27 as stated: for non-empty left and right with the column in some right
\* row, and a non-empty value column, the rows kept by the exclude filter are
\* the left rows whose key compare classifies 'only left', and the rows kept by
\* the include filter are those whose key is classified 'matched' or 'diff'.
C27_AsStated ==
    (FilteredAndCompared /\ leftData # <<>> /\ rightData # <<>> /\ ColumnInRight) =>
        filterResult.rows = SelectSeq(leftData, KeptByStatus)

\* the same, on lists in which no key is the string that NULL_SENTINEL is
C27_ApartFromSentinel ==
    (/\ FilteredAndCompared /\ leftData # <<>> /\ rightData # <<>> /\ ColumnInRight
     /\ \A i \in 1..Len(leftData) : Get(leftData[i], column) # Str(NULL_SENTINEL)
     /\ \A i \in 1..Len(rightData) : Get(rightData[i], column) # Str(NULL_SENTINEL)) =>
        filterResult.rows = SelectSeq(leftData, KeptByStatus)

(***************************************************************************)
(* Statements about letter case in compareCSVData.                         *)
(***************************************************************************)
\* two values whose trimmed string forms differ, and only in letter case
DifferOnlyInCase(a, b) ==
    /\ ValueText(a) # ValueText(b)
    /\ ToLowerCase(ValueText(a)) = ToLowerCase(ValueText(b))

RowKeys(data) == [i \in 1..Len(data) |-> RowKey(data[i])]

\* the distinct keys of data, each at the place of its first occurrence
FirstKeys(data) ==
    NamesAt(RowKeys(data),
            {i \in 1..Len(data) : \A j \in 1..(i - 1) : RowKey(data[j]) # RowKey(data[i])})

\* the keys of right that left does not hold, by first occurrence in right
RightOnlyKeys ==
    LET keys == FirstKeys(rightData)
    IN NamesAt(keys, {i \in 1..Len(keys) : keys[i] \notin KeysOf(leftData)})

\* C29: the rows of a comparison come in an order fixed by the inputs: one row
\* per distinct normalized key of left, in the order of the key's first
\* occurrence in left (a later duplicate does not move it), then one row per
\* key only right holds, in the order of first occurrence in right.
C29_RowOrder ==
    Compared =>
        [i \in 1..Len(compareResult.rows) |-> KeyOf(compareResult.rows[i].keyValue)]
            = FirstKeys(leftData) \o RightOnlyKeys

\* left holds a, 1, a: the repeated key a stays in front of 1, and the key
\* only right holds comes last
C29_Witness ==
    /\ Compared /\ ~caseInsensitive
    /\ Len(leftData) = 3 /\ Len(rightData) = 2
    /\ Get(leftData[1], keyColumn) = Str(<<"a">>)
    /\ Get(leftData[2], keyColumn) = Str(<<"1">>)
    /\ Get(leftData[3], keyColumn) = Str(<<"a">>)
    /\ Get(rightData[1], keyColumn) = Str(<<"A">>)
    /\ Get(rightData[2], keyColumn) = Str(<<"1">>)
    /\ Len(compareResult.rows) = 3
    /\ compareResult.rows[1].keyValue = Str(<<"a">>)
    /\ compareResult.rows[2].keyValue = Str(<<"1">>)
    /\ compareResult.rows[3].status = "only right"

(***************************************************************************)
(* Statements about the App component.                                     *)
(***************************************************************************)
\* the step in which a call of handleFileUpload(isLeft) got a file and ended
LoadStep(isLeft) ==
    /\ isLeft \in selecting /\ isLeft \notin selecting'
    /\ results'.status \in {"complete", "error"}

\* the file just read cannot be loaded: the tokenizer failed or reported
\* errors, there is no row, or a column name, quotes stripped, is repeated
LoadFails(res) ==
    \/ res.status = "error"
    \/ res.errors # <<>>
    \/ res.data = <<>>
    \/ \E i, j \in 1..Len(res.data[1]) :
          /\ i < j /\ Unquoted(res.data[1][i]) # <<>>
          /\ Unquoted(res.data[1][i]) = Unquoted(res.data[1][j])

\* C30: when a load fails, only error and errorOpen change: leftCSV, rightCSV,
\* the two paths and the two pages keep their values; when it succeeds, only
\* the chosen side's data, path and page (set to 1) change.
C30_LoadFrame ==
    [][\A isLeft \in BOOLEAN :
          LoadStep(isLeft) =>
              IF LoadFails(results')
              THEN /\ UNCHANGED <<leftCSV, rightCSV, leftFilePath, rightFilePath,
                                  leftPage, rightPage>>
                   /\ error' # <<>> /\ errorOpen'
              ELSE /\ UNCHANGED <<error, errorOpen>>
                   /\ IF isLeft
                      THEN /\ UNCHANGED <<rightCSV, rightFilePath, rightPage>>
                           /\ leftCSV'.loaded /\ leftCSV' # leftCSV
                           /\ leftFilePath' = filePath' /\ leftPage' = 1
                      ELSE /\ UNCHANGED <<leftCSV, leftFilePath, leftPage>>
                           /\ rightCSV'.loaded /\ rightCSV' # rightCSV
                           /\ rightFilePath' = filePath' /\ rightPage' = 1]_vars

\* a file with a repeated column name was read while the long table was
\* loaded on the left and shown at its second page
C30_Witness ==
    /\ pc = "app" /\ filePath = "repeated.csv" /\ results.status = "complete"
    /\ errorOpen /\ error # <<>>
    /\ leftCSV.loaded /\ leftFilePath = "long.csv" /\ leftPage = 2
    /\ rightCSV.loaded /\ rightFilePath = "table.csv"

(***************************************************************************)
(* Statements about the CsvFilter component.                               *)
(***************************************************************************)
\* in filter mode with both tables loaded, and no effect left to run
FilterSettled ==
    /\ pc = "component" /\ Settled
    /\ operationMode = "filter" /\ leftCSV.loaded /\ rightCSV.loaded

\* what the current selection gives: the filtered rows without the empty ones,
\* and no rows when no column is selected or the filter fails
CurrentFilterRows ==
    IF selectedColumnIndex = 0 THEN <<>>
    ELSE LET filtered == filterCsvData(leftCSV.data, rightCSV.data,
                                       rightCSV.headers[selectedColumnIndex],
                                       filterMode, caseInsensitive)
         IN IF filtered.kind = "ok" THEN filterEmptyRows(filtered.rows) ELSE <<>>

\* C23 as stated: in filter mode with both CSVs loaded, once the effects have
\* settled, filteredData is filterEmptyRows of the filter of the two tables by
\* the selected column's header with the current mode and caseInsensitive when
\* a column is selected, and empty when none is; the rows of a column selected
\* before are never shown, also when the filter fails for the current one.
C23_AsStated == FilterSettled => filteredData = CurrentFilterRows

\* the same, as long as the selected column's header is not blank
C23_ApartFromBlankColumn ==
    (FilterSettled /\ selectedColumnIndex # 0
        /\ Trim(rightCSV.headers[selectedColumnIndex]) # <<>>)
        => filteredData = CurrentFilterRows

\* leftCSV or rightCSV is not the object of the last render whose effects ran
InputChanged ==
    /\ pc = "component" /\ committed.mounted
    /\ (leftCSV # committed.leftCSV \/ rightCSV # committed.rightCSV)

ResetState ==
    /\ selectedColumnIndex = 0 /\ keyColumnIndex = 0 /\ valueColumnIndex = 0
    /\ filteredData = <<>> /\ comparisonResult = [kind |-> "null"]
    /\ caseInsensitive = FALSE
    /\ filteredPage = 1 /\ comparisonPage = 1

\* C24: whenever leftCSV or rightCSV changes, the component eventually settles
\* in the reset state: no filter column and no key or value column selected,
\* filteredData empty, comparisonResult null, caseInsensitive false and both
\* result pages 1.
C24_ResetOnInputChange == InputChanged ~> (Settled /\ ResetState)

\* settled in the reset state with both tables loaded, after a selection that
\* left its error message behind and with a filter mode that was changed
C24_Witness ==
    /\ pc = "component" /\ Settled /\ ResetState
    /\ leftCSV.loaded /\ rightCSV.loaded
    /\ error # <<>> /\ filterMode = "include"

====
